---- MODULE Spec2Model ----
(***************************************************************************)
(* Dubai transit: the offline dataset (routes, stops, route_patterns,      *)
(* pattern_stops, stop_routes) as the pattern builder writes it, and the   *)
(* journey planner over it: GET /api/search/route of the backend and       *)
(* findDirectRoutes / findTransferRoutes / useJourneySearch of the mobile  *)
(* application.                                                            *)
(***************************************************************************)
EXTENDS Integers, Sequences, FiniteSets, TLC

VARIABLES
    deployment,      \* "backend" (express process) or "mobile" (the app)
    routes,          \* table routes: rows [route_id]
    stops,           \* table stops: rows [stop_id]
    route_patterns,  \* table route_patterns
    pattern_stops,   \* table pattern_stops
    stop_routes,     \* table stop_routes
    req,             \* the last request: [from, to]
    trace,           \* the database statements the last request executed, in order
    directRows,      \* rows of the direct-route query of the last request
    transferRows,    \* rows (backend: pushed entries) of the transfer search
    res,             \* backend: the HTTP response
    hook,            \* mobile: state of useJourneySearch [routes, error, isLoading]
    gtfs,            \* the feed files in GTFS_DIR a build reads
    build,           \* build-offline-db.js: [pc, error] of the running script
    dbfile,          \* the file at OFFLINE_DB_PATH: "absent", "previous" or "new"
    reader,          \* the serving process: [handle, seen] of getDb and its last query
    stop_name,       \* column stop_name of table stops: stop_id -> characters
    stopReq,         \* the query of the last stop search: characters
    stopTrace,       \* the statements the last stop search executed, in order
    stopRes,         \* the outcome of the last stop search: [status, data]
    lookupReq,       \* the last route lookup: [handler, token]
    lookupRes,       \* its outcome: [status, route_id]
    appDb,           \* mobile: db of db.ts and the file in the SQLite directory
    callers,         \* mobile: the initDatabase() calls of the hooks: [pc, got, early]
    stopHook,        \* mobile: state of useStopSearch [results, error, isLoading]
    stopCalls,       \* mobile: the calls of useStopSearch.search awaiting the database
    journeyCalls,    \* mobile: the calls of useJourneySearch.search awaiting the database
    asked,           \* mobile: the calls made on the hooks of the screen, in order
    update           \* auto-update.js: the remote archive, the files of data/ and db/

tables == <<routes, stops, route_patterns, pattern_stops, stop_routes>>
planner == <<req, trace, directRows, transferRows, res, hook>>
builder == <<gtfs, build, dbfile, reader>>
finder == <<stop_name, stopReq, stopTrace, stopRes>>
lookup == <<lookupReq, lookupRes>>
\* the variables of the operations apart from the planner, the builder and
\* the stop search
opener == <<appDb, callers>>
screen == <<stopHook, stopCalls, journeyCalls, asked>>
others == <<lookup, opener, screen, update>>
vars == <<deployment, routes, stops, route_patterns, pattern_stops, stop_routes,
          req, trace, directRows, transferRows, res, hook,
          gtfs, build, dbfile, reader,
          stop_name, stopReq, stopTrace, stopRes,
          lookupReq, lookupRes, appDb, callers,
          stopHook, stopCalls, journeyCalls, asked, update>>

-----------------------------------------------------------------------------
(* Bounds of the explored feeds *)

\* total number of stop_times rows of a feed of two trips
MaxStopTimes == 4

\* number of stop_times rows of a feed of one long trip
MaxLongTrip == 12

\* the ids the feed files may use
StopIds == {"A", "B", "C"}
RouteIds == {"R1", "R2"}
\* (route_id, direction_id) of the second trip of trips.txt
SecondTrips == {<<"R1", "0">>, <<"R1", "1">>, <<"R2", "0">>}
\* ids a feed may reference without a row in stops.txt / routes.txt
GhostStops == {"B", "C"}
GhostRoutes == {"R2"}

-----------------------------------------------------------------------------
(* Helpers on sequences *)

Min(S) == CHOOSE x \in S : \A y \in S : x <= y

RECURSIVE SeqsUpTo(_, _)
\* all sequences over S of length <= n
SeqsUpTo(S, n) ==
    IF n = 0 THEN {<<>>}
    ELSE LET shorter == SeqsUpTo(S, n - 1)
         IN  shorter \cup {Append(s, x) : s \in {t \in shorter : Len(t) = n - 1}, x \in S}

-----------------------------------------------------------------------------
(* The pattern builder: build-offline-db.js *)

\* parseInt(x) || 0 on the direction_id column of trips.txt
ParseInt(s) ==
    CASE s = "0" -> 0
      [] s = "1" -> 1
      [] s = "2" -> 2
      [] OTHER -> 0

\* `${trip.route_id}_${trip.direction_id || 0}`
TripKey(trip) ==
    <<trip.route_id, IF trip.direction_id = "" THEN "0" ELSE trip.direction_id>>

\* a map that keeps the last trip of every key instead of the first
PatternTrips_LastTrip(trips) ==
    LET last(i) == \A j \in (i + 1)..Len(trips) : TripKey(trips[j]) # TripKey(trips[i])
        F[i \in 0..Len(trips)] ==
            IF i = 0 THEN <<>>
            ELSE IF last(i)
                 THEN Append(F[i - 1],
                             [trip_id |-> trips[i].trip_id,
                              route_id |-> trips[i].route_id,
                              direction_id |-> ParseInt(trips[i].direction_id),
                              headsign |-> trips[i].trip_headsign])
                 ELSE F[i - 1]
    IN  F[Len(trips)]

\* patternTrips: the first trip of every key, in trips.txt order
PatternTrips(trips) ==
    LET first(i) == \A j \in 1..(i - 1) : TripKey(trips[j]) # TripKey(trips[i])
        F[i \in 0..Len(trips)] ==
            IF i = 0 THEN <<>>
            ELSE IF first(i)
                 THEN Append(F[i - 1],
                             [trip_id |-> trips[i].trip_id,
                              route_id |-> trips[i].route_id,
                              direction_id |-> ParseInt(trips[i].direction_id),
                              headsign |-> trips[i].trip_headsign])
                 ELSE F[i - 1]
    IN  F[Len(trips)]

\* the decimal texts of the numbers 0, 1, 2, ... a stop_sequence field may hold
Decimals ==
    <<"0", "1", "2", "3", "4", "5", "6", "7", "8", "9", "10", "11", "12", "13",
      "14", "15", "16">>

\* parseInt(text) || 0 on the stop_sequence column of stop_times.txt: the
\* number of a decimal text, 0 for any other text
ParseSequence(text) ==
    IF \E n \in DOMAIN Decimals : Decimals[n] = text
    THEN (CHOOSE n \in DOMAIN Decimals : Decimals[n] = text) - 1
    ELSE 0

\* tripStops.get(trip_id): the stop-time rows of one trip, in file order
TripStops(stop_times, trip_id) ==
    LET F[i \in 0..Len(stop_times)] ==
            IF i = 0 THEN <<>>
            ELSE IF stop_times[i].trip_id = trip_id
                 THEN Append(F[i - 1],
                             [stop_id |-> stop_times[i].stop_id,
                              sequence |-> ParseSequence(stop_times[i].stop_sequence)])
                 ELSE F[i - 1]
    IN  F[Len(stop_times)]

\* insert x into the sorted sequence s after every element that is not larger
InsertSorted(s, x) ==
    LET k == Cardinality({i \in DOMAIN s : s[i].sequence <= x.sequence})
    IN  SubSeq(s, 1, k) \o <<x>> \o SubSeq(s, k + 1, Len(s))

\* stops.sort((a, b) => a.sequence - b.sequence): a stable sort
SortBySequence(s) ==
    LET F[i \in 0..Len(s)] == IF i = 0 THEN <<>> ELSE InsertSorted(F[i - 1], s[i])
    IN  F[Len(s)]

EmptyBuild ==
    [ok |-> TRUE, next_id |-> 1, route_patterns |-> {}, pattern_stops |-> {},
     stop_routes |-> {}]

\* a loop over a pattern_stops table without UNIQUE(pattern_id, stop_sequence)
BuildPattern_NoUniqueSequence(acc, pattern, tripStops) ==
    LET sorted == SortBySequence(tripStops)
        pid == acc.next_id
        uniquePattern ==
            \A rp \in acc.route_patterns :
                ~(rp.route_id = pattern.route_id /\ rp.direction_id = pattern.direction_id)
    IN  IF ~acc.ok \/ Len(tripStops) = 0 THEN acc
        ELSE IF ~uniquePattern
        THEN [EmptyBuild EXCEPT !.ok = FALSE]
        ELSE [ok |-> TRUE,
              next_id |-> pid + 1,
              route_patterns |-> acc.route_patterns \cup
                  {[pattern_id |-> pid,
                    route_id |-> pattern.route_id,
                    direction_id |-> pattern.direction_id,
                    headsign |-> pattern.headsign,
                    first_stop_id |-> sorted[1].stop_id,
                    last_stop_id |-> sorted[Len(sorted)].stop_id,
                    total_stops |-> Len(sorted)]},
              pattern_stops |-> acc.pattern_stops \cup
                  {[pattern_id |-> pid, stop_id |-> sorted[i].stop_id,
                    stop_sequence |-> sorted[i].sequence] : i \in DOMAIN sorted},
              stop_routes |-> acc.stop_routes \cup
                  {[stop_id |-> sorted[i].stop_id, route_id |-> pattern.route_id,
                    direction_id |-> pattern.direction_id] : i \in DOMAIN sorted}]

\* a loop that adds to stop_routes the first stop of the pattern only
BuildPattern_FirstStopRoute(acc, pattern, tripStops) ==
    LET sorted == SortBySequence(tripStops)
        pid == acc.next_id
        uniquePattern ==
            \A rp \in acc.route_patterns :
                ~(rp.route_id = pattern.route_id /\ rp.direction_id = pattern.direction_id)
        uniqueSequence ==
            \A i, j \in DOMAIN sorted : i # j => sorted[i].sequence # sorted[j].sequence
    IN  IF ~acc.ok \/ Len(tripStops) = 0 THEN acc
        ELSE IF ~uniquePattern \/ ~uniqueSequence
        THEN [EmptyBuild EXCEPT !.ok = FALSE]
        ELSE [ok |-> TRUE,
              next_id |-> pid + 1,
              route_patterns |-> acc.route_patterns \cup
                  {[pattern_id |-> pid,
                    route_id |-> pattern.route_id,
                    direction_id |-> pattern.direction_id,
                    headsign |-> pattern.headsign,
                    first_stop_id |-> sorted[1].stop_id,
                    last_stop_id |-> sorted[Len(sorted)].stop_id,
                    total_stops |-> Len(sorted)]},
              pattern_stops |-> acc.pattern_stops \cup
                  {[pattern_id |-> pid, stop_id |-> sorted[i].stop_id,
                    stop_sequence |-> sorted[i].sequence] : i \in DOMAIN sorted},
              stop_routes |-> acc.stop_routes \cup
                  {[stop_id |-> sorted[1].stop_id, route_id |-> pattern.route_id,
                    direction_id |-> pattern.direction_id]}]

\* one iteration of the loop of buildPatterns
BuildPattern(acc, pattern, tripStops) ==
    LET sorted == SortBySequence(tripStops)
        pid == acc.next_id
        \* UNIQUE(route_id, direction_id) of route_patterns
        uniquePattern ==
            \A rp \in acc.route_patterns :
                ~(rp.route_id = pattern.route_id /\ rp.direction_id = pattern.direction_id)
        \* UNIQUE(pattern_id, stop_sequence) of pattern_stops
        uniqueSequence ==
            \A i, j \in DOMAIN sorted : i # j => sorted[i].sequence # sorted[j].sequence
    IN  IF ~acc.ok \/ Len(tripStops) = 0 THEN acc
        ELSE IF ~uniquePattern \/ ~uniqueSequence
        THEN [EmptyBuild EXCEPT !.ok = FALSE]
        ELSE [ok |-> TRUE,
              next_id |-> pid + 1,
              route_patterns |-> acc.route_patterns \cup
                  {[pattern_id |-> pid,
                    route_id |-> pattern.route_id,
                    direction_id |-> pattern.direction_id,
                    headsign |-> pattern.headsign,
                    first_stop_id |-> sorted[1].stop_id,
                    last_stop_id |-> sorted[Len(sorted)].stop_id,
                    total_stops |-> Len(sorted)]},
              pattern_stops |-> acc.pattern_stops \cup
                  {[pattern_id |-> pid, stop_id |-> sorted[i].stop_id,
                    stop_sequence |-> sorted[i].sequence] : i \in DOMAIN sorted},
              stop_routes |-> acc.stop_routes \cup
                  {[stop_id |-> sorted[i].stop_id, route_id |-> pattern.route_id,
                    direction_id |-> pattern.direction_id] : i \in DOMAIN sorted}]

\* the transaction buildPatterns over patternTrips
BuildPatterns(trips, stop_times) ==
    LET pts == PatternTrips(trips)
        F[i \in 0..Len(pts)] ==
            IF i = 0 THEN EmptyBuild
            ELSE BuildPattern(F[i - 1], pts[i], TripStops(stop_times, pts[i].trip_id))
    IN  F[Len(pts)]

\* buildOfflineDatabase: the dataset built from a feed
BuildOfflineDatabase(feed) ==
    LET p == BuildPatterns(feed.trips, feed.stop_times)
    IN  [ok |-> p.ok,
         routes |-> {[route_id |-> r] : r \in feed.routes},
         stops |-> {[stop_id |-> s] : s \in feed.stops},
         route_patterns |-> p.route_patterns,
         pattern_stops |-> p.pattern_stops,
         stop_routes |-> p.stop_routes]

-----------------------------------------------------------------------------
(* The feeds explored *)

\* the stop_times rows of a trip that calls at the stops of list, numbered "1", "2", ...
StopTimesOf(trip_id, list) ==
    [i \in DOMAIN list |->
        [trip_id |-> trip_id, stop_id |-> list[i], stop_sequence |-> Decimals[i + 1]]]

\* the stop lists of the two trips: at most MaxStopTimes rows in all
StopLists ==
    LET lists == SeqsUpTo(StopIds, MaxStopTimes)
    IN  {p \in lists \X lists : Len(p[1]) + Len(p[2]) <= MaxStopTimes}

\* stops.txt lists every stop id but at most one; routes.txt likewise. An id
\* that stop_times.txt / trips.txt use and stops.txt / routes.txt do not list
\* gives rows of pattern_stops / route_patterns without a row in stops / routes
StopsFiles == {StopIds} \cup {StopIds \ {s} : s \in GhostStops}
RoutesFiles == {RouteIds} \cup {RouteIds \ {r} : r \in GhostRoutes}

FirstTrip ==
    [trip_id |-> "T1", route_id |-> "R1", direction_id |-> "0", trip_headsign |-> "H1"]

\* trip T1 on route R1 direction 0 and a second trip T2
TwoTripFeeds ==
    {[routes |-> rf,
      stops |-> sf,
      trips |-> <<FirstTrip,
                  [trip_id |-> "T2", route_id |-> t2[1], direction_id |-> t2[2],
                   trip_headsign |-> "H2"]>>,
      stop_times |-> StopTimesOf("T1", l[1]) \o StopTimesOf("T2", l[2])] :
        rf \in RoutesFiles, sf \in StopsFiles, t2 \in SecondTrips, l \in StopLists}

\* one trip that calls at stop x and then n times at stop y
LongTripFeeds ==
    {[routes |-> rf,
      stops |-> sf,
      trips |-> <<FirstTrip>>,
      stop_times |-> StopTimesOf("T1", <<xy[1]>> \o [i \in 1..n |-> xy[2]])] :
        rf \in RoutesFiles, sf \in StopsFiles,
        xy \in {p \in StopIds \X StopIds : p[1] # p[2]},
        n \in (MaxStopTimes)..(MaxLongTrip - 1)}

\* trip T1 of two stops on route R1 and a circular trip T2 on route R2 that
\* ends at the stop it starts from
CircularFeeds ==
    {[routes |-> rf,
      stops |-> sf,
      trips |-> <<FirstTrip,
                  [trip_id |-> "T2", route_id |-> "R2", direction_id |-> "0",
                   trip_headsign |-> "H2"]>>,
      stop_times |-> StopTimesOf("T1", l1) \o StopTimesOf("T2", <<xy[1], xy[2], xy[1]>>)] :
        rf \in RoutesFiles, sf \in StopsFiles,
        l1 \in {l \in SeqsUpTo(StopIds, 2) : Len(l) = 2},
        xy \in {p \in StopIds \X StopIds : p[1] # p[2]}}

\* route R1 in both directions, x to y and y to z, and route R2 from y to z
BothDirectionsFeeds ==
    {[routes |-> RouteIds,
      stops |-> StopIds,
      trips |-> <<FirstTrip,
                  [trip_id |-> "T2", route_id |-> "R1", direction_id |-> "1",
                   trip_headsign |-> "H2"],
                  [trip_id |-> "T3", route_id |-> "R2", direction_id |-> "0",
                   trip_headsign |-> "H3"]>>,
      stop_times |-> StopTimesOf("T1", <<xyz[1], xyz[2]>>)
                        \o StopTimesOf("T2", <<xyz[2], xyz[3]>>)
                        \o StopTimesOf("T3", <<xyz[2], xyz[3]>>)] :
        xyz \in {p \in StopIds \X StopIds \X StopIds :
                    p[1] # p[2] /\ p[2] # p[3] /\ p[1] # p[3]}}

Feeds == TwoTripFeeds \cup LongTripFeeds \cup CircularFeeds \cup BothDirectionsFeeds

-----------------------------------------------------------------------------
(* Sorting and truncating query results *)

\* ORDER BY key LIMIT k over a set of <<key, row>> pairs: every order the
\* statement may return the rows in (rows of equal key come in any order)
RECURSIVE OrderedTake(_, _)
OrderedTake(keyed, k) ==
    IF k = 0 \/ keyed = {} THEN {<<>>}
    ELSE LET least == {p \in keyed : \A q \in keyed : p[1] <= q[1]}
         IN  UNION {{<<p[2]>> \o s : s \in OrderedTake(keyed \ {p}, k - 1)} : p \in least}

\* LIMIT k without ORDER BY, or a loop left after k pushes: any k rows, any order
RECURSIVE AnyTake(_, _)
AnyTake(rows, k) ==
    IF k = 0 \/ rows = {} THEN {<<>>}
    ELSE UNION {{<<r>> \o s : s \in AnyTake(rows \ {r}, k - 1)} : r \in rows}

-----------------------------------------------------------------------------
(* Backend: GET /api/search/route, search.routes.js *)

DIRECT_LIMIT == 5
TRANSFER_LIMIT == 5

\* a handler that tests the from id only
MissingInput_FromOnly(from, to) == from = ""

\* if (!from || !to)
MissingInput(from, to) == from = "" \/ to = ""

\* a handler that goes on to the transfer search whatever the direct search found
DirectFound_Never(directRoutes) == FALSE

\* if (directRoutes.length > 0)
DirectFound(directRoutes) == Len(directRoutes) > 0

\* a transfer loop that skips no pair of routes
SameRoute_Never(fromRoute, toRoute) == FALSE

\* if (toRoute.route_id === fromRoute.route_id) continue
SameRoute(fromRoute, toRoute) == toRoute.route_id = fromRoute.route_id

\* SELECT ... FROM stops WHERE stop_id = ?
StopRow(id) == {s \in stops : s.stop_id = id}

\* a direct query ordered by the distance descending
SequenceDistance_Descending(r) == r.from_sequence - r.to_sequence

\* ps2.stop_sequence - ps1.stop_sequence of a row of the direct query
SequenceDistance(r) == r.to_sequence - r.from_sequence

\* the rows of the directRoutes statement (SELECT DISTINCT) before ORDER BY and LIMIT
DirectRoutesRows(from, to) ==
    {[route_id |-> j[1].route_id, pattern_id |-> j[1].pattern_id,
      direction_id |-> j[1].direction_id, headsign |-> j[1].headsign,
      from_sequence |-> j[2].stop_sequence, to_sequence |-> j[3].stop_sequence] :
        j \in {k \in route_patterns \X {ps \in pattern_stops : ps.stop_id = from}
                        \X {ps \in pattern_stops : ps.stop_id = to} :
                /\ \E sr1 \in stop_routes, sr2 \in stop_routes, r \in routes :
                    /\ sr1.route_id = sr2.route_id /\ sr1.direction_id = sr2.direction_id
                    /\ sr1.route_id = r.route_id
                    /\ r.route_id = k[1].route_id /\ sr1.direction_id = k[1].direction_id
                    /\ sr1.stop_id = from
                    /\ sr2.stop_id = to
                /\ k[1].pattern_id = k[2].pattern_id
                /\ k[1].pattern_id = k[3].pattern_id
                /\ k[2].stop_sequence < k[3].stop_sequence}}

\* rows of pattern_stops in ascending stop_sequence (unique within a pattern)
RECURSIVE OrderByStopSequence(_)
OrderByStopSequence(rows) ==
    IF rows = {} THEN <<>>
    ELSE LET r == CHOOSE x \in rows : \A y \in rows : x.stop_sequence <= y.stop_sequence
         IN  <<r>> \o OrderByStopSequence(rows \ {r})

\* the stopsOnRoute statement of a direct row r
StopsOnRoute(r) ==
    OrderByStopSequence(
        {ps \in pattern_stops :
            /\ \E s \in stops : ps.stop_id = s.stop_id
            /\ ps.pattern_id = r.pattern_id
            /\ ps.stop_sequence >= r.from_sequence
            /\ ps.stop_sequence <= r.to_sequence})

\* formattedRoutes: one entry of the response of a direct result
FormattedRoute(r) ==
    [type |-> "direct", legs |-> 1, route_id |-> r.route_id,
     direction_id |-> r.direction_id, headsign |-> r.headsign,
     stops_count |-> r.to_sequence - r.from_sequence + 1,
     stops |-> [i \in DOMAIN StopsOnRoute(r) |->
                   [stop_sequence |-> StopsOnRoute(r)[i].stop_sequence,
                    stop_id |-> StopsOnRoute(r)[i].stop_id]]]

\* the fromRoutes / toRoutes statement: the (route, direction) pairs serving a stop
RoutesServing(stop_id) ==
    {[route_id |-> sr.route_id, direction_id |-> sr.direction_id] :
        sr \in {x \in stop_routes :
                    x.stop_id = stop_id /\ \E r \in routes : r.route_id = x.route_id}}

\* the (pattern_id, stop_id) pairs of pattern_stops and the sequences of each
PatternStopKeys == {<<ps.pattern_id, ps.stop_id>> : ps \in pattern_stops}
SequencesOf(key) ==
    {ps.stop_sequence : ps \in {x \in pattern_stops :
                                    x.pattern_id = key[1] /\ x.stop_id = key[2]}}

\* SELECT stop_sequence FROM pattern_stops WHERE pattern_id = ? AND stop_id = ?
\* read with .get(): one of the matching rows, the same one each time within a
\* request; the statement has no ORDER BY, so which one is the engine's choice
SequenceGets ==
    LET repeated == {key \in PatternStopKeys : Cardinality(SequencesOf(key)) > 1}
        choices == {g \in [repeated -> {ps.stop_sequence : ps \in pattern_stops}] :
                        \A key \in repeated : g[key] \in SequencesOf(key)}
    IN  {[key \in PatternStopKeys |->
             IF key \in repeated THEN g[key] ELSE Min(SequencesOf(key))] : g \in choices}

\* SELECT pattern_id FROM route_patterns WHERE route_id = ? AND direction_id = ?
PatternOf(route) ==
    {rp \in route_patterns :
        rp.route_id = route.route_id /\ rp.direction_id = route.direction_id}

\* a reachableStops statement without the condition on stop_sequence
ReachableStops_WholePattern(pattern_id, fromSeq) ==
    {ps \in pattern_stops :
        /\ \E s \in stops : ps.stop_id = s.stop_id
        /\ ps.pattern_id = pattern_id}

\* reachableStops: the stops after the origin on a pattern, joined with stops
ReachableStops(pattern_id, fromSeq) ==
    {ps \in pattern_stops :
        /\ \E s \in stops : ps.stop_id = s.stop_id
        /\ ps.pattern_id = pattern_id
        /\ ps.stop_sequence > fromSeq}

\* the transfers the three nested loops find, before the cut at TRANSFER_LIMIT;
\* get is the row each .get() returns
TransferCandidates(from, to, get) ==
    {[transfer_stop_id |-> c[3].stop_id,
      route1 |-> c[1].route_id, direction1 |-> c[1].direction_id,
      transfer_sequence |-> c[3].stop_sequence,
      route2 |-> c[4].route_id, direction2 |-> c[4].direction_id] :
        c \in {k \in RoutesServing(from) \X route_patterns \X pattern_stops
                        \X RoutesServing(to) \X route_patterns :
                \* fromPattern, fromSeq
                /\ k[2] \in PatternOf(k[1])
                /\ <<k[2].pattern_id, from>> \in PatternStopKeys
                \* reachableStops
                /\ k[3] \in ReachableStops(k[2].pattern_id, get[<<k[2].pattern_id, from>>])
                \* skip same route
                /\ ~SameRoute(k[1], k[4])
                \* toPattern, transferSeq, destSeq
                /\ k[5] \in PatternOf(k[4])
                /\ <<k[5].pattern_id, k[3].stop_id>> \in PatternStopKeys
                /\ <<k[5].pattern_id, to>> \in PatternStopKeys
                /\ get[<<k[5].pattern_id, k[3].stop_id>>] < get[<<k[5].pattern_id, to>>]}}

\* the entry pushed to transferRoutes, as formattedTransfers shapes it
FormattedTransfer(t) ==
    [type |-> "transfer", legs |-> 2,
     leg1 |-> [route_id |-> t.route1],
     transfer_at |-> [stop_id |-> t.transfer_stop_id],
     leg2 |-> [route_id |-> t.route2]]

\* a getDb that opens a handle at every call
OpenHandle_EachCall(r) == [r EXCEPT !.handle = dbfile, !.opens = @ + 1]

\* getDb: if (!db) db = new Database(OFFLINE_DB_PATH, { readonly: true })
OpenHandle(r) ==
    IF r.handle = "none" THEN [r EXCEPT !.handle = dbfile, !.opens = @ + 1] ELSE r

\* const db = getDb() of a handler: the process has the handle
TakeHandle(r) == [OpenHandle(r) EXCEPT !.status = "ok"]

NoRequest == [from |-> "", to |-> ""]
NoResponse == [status |-> 0, route_type |-> "", data |-> <<>>]

\* router.get('/route'): the whole handler for one request
RouteHandler(from, to) ==
    /\ deployment = "backend"
    /\ req' = [from |-> from, to |-> to]
    /\ UNCHANGED <<deployment, tables, hook, gtfs, build, dbfile, finder, others>>
    /\ reader' = IF MissingInput(from, to) THEN reader ELSE TakeHandle(reader)
    /\ IF MissingInput(from, to)
       THEN /\ res' = [status |-> 400, route_type |-> "", data |-> <<>>]
            /\ trace' = <<>>
            /\ directRows' = <<>>
            /\ transferRows' = <<>>
       ELSE IF StopRow(from) = {}  \/ StopRow(to) = {}
       THEN /\ res' = [status |-> 404, route_type |-> "", data |-> <<>>]
            /\ trace' = <<"stops", "stops">>
            /\ directRows' = <<>>
            /\ transferRows' = <<>>
       ELSE \E direct \in OrderedTake({<<SequenceDistance(r), r>> :
                                            r \in DirectRoutesRows(from, to)},
                                      DIRECT_LIMIT) :
            /\ directRows' = direct
            /\ IF DirectFound(direct)
               THEN /\ res' = [status |-> 200, route_type |-> "direct",
                               data |-> [i \in DOMAIN direct |-> FormattedRoute(direct[i])]]
                    /\ trace' = <<"stops", "stops", "directRoutes">>
                                    \o [i \in DOMAIN direct |-> "stopsOnRoute"]
                    /\ transferRows' = <<>>
               ELSE \E get \in SequenceGets :
                    \E transfer \in AnyTake(TransferCandidates(from, to, get),
                                            TRANSFER_LIMIT) :
                    /\ transferRows' = transfer
                    /\ trace' = <<"stops", "stops", "directRoutes", "fromRoutes",
                                  "toRoutes", "transferRoutes">>
                    /\ res' = IF Len(transfer) > 0
                              THEN [status |-> 200, route_type |-> "transfer",
                                    data |-> [i \in DOMAIN transfer |->
                                                 FormattedTransfer(transfer[i])]]
                              ELSE [status |-> 200, route_type |-> "none", data |-> <<>>]

-----------------------------------------------------------------------------
(* Mobile: findDirectRoutes, findTransferRoutes (db.ts), useJourneySearch *)

MOBILE_DIRECT_LIMIT == 10
MOBILE_TRANSFER_LIMIT == 5

\* ps2.stop_sequence - ps1.stop_sequence of a row of findDirectRoutes
SeqDistance(r) == r.to_seq - r.from_seq

\* a findDirectRoutes statement that compares the sequences with <> instead of <
FindDirectRoutesRows_AnyOrder(fromStopId, toStopId) ==
    {[route_id |-> j[3].route_id, pattern_id |-> j[1].pattern_id,
      direction_id |-> j[3].direction_id, headsign |-> j[3].headsign,
      from_seq |-> j[1].stop_sequence, to_seq |-> j[2].stop_sequence] :
        j \in {k \in {ps \in pattern_stops : ps.stop_id = fromStopId}
                        \X {ps \in pattern_stops : ps.stop_id = toStopId}
                        \X route_patterns :
                /\ k[1].pattern_id = k[2].pattern_id
                /\ k[1].pattern_id = k[3].pattern_id
                /\ \E r \in routes : k[3].route_id = r.route_id
                /\ k[1].stop_sequence # k[2].stop_sequence}}

\* the rows of the statement of findDirectRoutes before ORDER BY and LIMIT
FindDirectRoutesRows(fromStopId, toStopId) ==
    {[route_id |-> j[3].route_id, pattern_id |-> j[1].pattern_id,
      direction_id |-> j[3].direction_id, headsign |-> j[3].headsign,
      from_seq |-> j[1].stop_sequence, to_seq |-> j[2].stop_sequence] :
        j \in {k \in {ps \in pattern_stops : ps.stop_id = fromStopId}
                        \X {ps \in pattern_stops : ps.stop_id = toStopId}
                        \X route_patterns :
                /\ k[1].pattern_id = k[2].pattern_id
                /\ k[1].pattern_id = k[3].pattern_id
                /\ \E r \in routes : k[3].route_id = r.route_id
                /\ k[1].stop_sequence < k[2].stop_sequence}}

\* r.headsign || (r.direction_id === 0 ? "Upward" : "Downward")
DirectionLabel(r) ==
    IF r.headsign # "" THEN r.headsign
    ELSE IF r.direction_id = 0 THEN "Upward" ELSE "Downward"

\* a map that counts both ends of the ride in stops_between
FoundDirectRoute_Inclusive(r) ==
    [type |-> "direct", route_id |-> r.route_id,
     stops_between |-> r.to_seq - r.from_seq + 1, direction |-> DirectionLabel(r)]

\* routes.map(...) of findDirectRoutes: the FoundRoute of a row
FoundDirectRoute(r) ==
    [type |-> "direct", route_id |-> r.route_id,
     stops_between |-> r.to_seq - r.from_seq, direction |-> DirectionLabel(r)]

\* the stop_name / route_short_name columns of the row of an id: the names of
\* the feed, which are not the ids
StopName(stop_id) == <<"stop_name", stop_id>>
RouteShortName(route_id) == <<"route_short_name", route_id>>

\* the rows of the statement of findTransferRoutes (SELECT DISTINCT) before LIMIT
FindTransferRoutesRows(fromStopId, toStopId) ==
    {[r1_id |-> j[3].route_id, r1_name |-> RouteShortName(j[3].route_id),
      r1_headsign |-> j[3].headsign,
      transfer_stop_id |-> j[2].stop_id, transfer_stop_name |-> StopName(j[2].stop_id),
      r2_id |-> j[6].route_id, r2_name |-> RouteShortName(j[6].route_id),
      r2_headsign |-> j[6].headsign] :
        j \in {k \in {ps \in pattern_stops : ps.stop_id = fromStopId}
                        \X pattern_stops \X route_patterns
                        \X pattern_stops
                        \X {ps \in pattern_stops : ps.stop_id = toStopId}
                        \X route_patterns :
                \* ps1_start, ps1_trans, rp1, r1
                /\ k[1].pattern_id = k[2].pattern_id
                /\ k[1].pattern_id = k[3].pattern_id
                /\ \E r1 \in routes : k[3].route_id = r1.route_id
                \* ps2_trans, ps2_end, rp2, r2
                /\ k[2].stop_id = k[4].stop_id
                /\ k[4].pattern_id = k[5].pattern_id
                /\ k[4].pattern_id = k[6].pattern_id
                /\ \E r2 \in routes : k[6].route_id = r2.route_id
                \* s_trans
                /\ \E s \in stops : k[2].stop_id = s.stop_id
                /\ k[1].stop_sequence < k[2].stop_sequence
                /\ k[4].stop_sequence < k[5].stop_sequence
                /\ k[3].route_id # k[6].route_id}}

\* routes.map(...) of findTransferRoutes: the FoundRoute of a row
FoundTransferRoute(r) ==
    [type |-> "transfer", route_id |-> r.r1_id, stops_between |-> 0,
     transfer_at |-> r.transfer_stop_name, leg2_name |-> r.r2_name]

NoHook == [routes |-> <<>>, error |-> "null", isLoading |-> FALSE]

\* useJourneySearch.search: the whole callback; "" stands for a null Stop
Search(fromStop, toStop) ==
    /\ deployment = "mobile"
    /\ req' = [from |-> fromStop, to |-> toStop]
    /\ UNCHANGED <<deployment, tables, res, builder, finder, others>>
    /\ IF fromStop = "" \/ toStop = ""
       THEN /\ hook' = [hook EXCEPT !.error = "Please select both stops"]
            /\ trace' = <<>>
            /\ directRows' = <<>>
            /\ transferRows' = <<>>
       ELSE \E direct \in OrderedTake({<<SeqDistance(r), r>> :
                                            r \in FindDirectRoutesRows(fromStop, toStop)},
                                      MOBILE_DIRECT_LIMIT) :
            /\ directRows' = direct
            /\ IF Len(direct) > 0
               THEN /\ hook' = [routes |-> [i \in DOMAIN direct |->
                                               FoundDirectRoute(direct[i])],
                                error |-> "null", isLoading |-> FALSE]
                    /\ trace' = <<"findDirectRoutes", "stops", "stops">>
                    /\ transferRows' = <<>>
               ELSE \E transfer \in AnyTake(FindTransferRoutesRows(fromStop, toStop),
                                            MOBILE_TRANSFER_LIMIT) :
                    /\ transferRows' = transfer
                    /\ trace' = <<"findDirectRoutes", "stops", "stops",
                                  "findTransferRoutes">>
                    /\ hook' = [routes |-> [i \in DOMAIN transfer |->
                                               FoundTransferRoute(transfer[i])],
                                error |-> IF Len(transfer) = 0
                                          THEN "No routes found between these stops"
                                          ELSE "null",
                                isLoading |-> FALSE]

-----------------------------------------------------------------------------
(* The specification *)

\* the ids a request may carry: empty (missing), or a stop id
RequestIds == {"", "A", "B"}

\* the requests explored: a journey between two different stops, or a request
\* with an id missing
Requests ==
    {q \in [from : RequestIds, to : RequestIds] : q.from = "" \/ q.from # q.to}

\* no build is running: the dataset at OFFLINE_DB_PATH is installed and closed
NoFeed == [missing |-> {}, routes |-> {}, stops |-> {}, trips |-> <<>>, stop_times |-> <<>>]
BuildDone == [pc |-> "done", error |-> "none", over |-> "absent"]
NoReader ==
    [handle |-> "none", status |-> "none", opens |-> 0,
     seen |-> [routes |-> {}, stops |-> {}, route_patterns |-> {}, pattern_stops |-> {},
               stop_routes |-> {}]]

\* no route lookup was made
NoLookup == [handler |-> "", token |-> <<>>]
NoLookupResult == [status |-> "none", route_id |-> <<>>]
LookupIdle == lookupReq = NoLookup /\ lookupRes = NoLookupResult

\* the hooks that call initDatabase() on mount
Callers == {"useBuses", "useBusDetails", "useJourneySearch"}

\* the app did not start: db is null, no hook called initDatabase
NoAppDb == [db |-> 0, file |-> "valid", opens |-> 0, copies |-> 0, ready |-> FALSE]
NoCall == [pc |-> "idle", got |-> 0, early |-> FALSE]
OpenerIdle == appDb = NoAppDb /\ callers = [c \in Callers |-> NoCall]

\* the screen was not touched: no results, no call in flight
NoStopHook == [results |-> <<>>, error |-> "null", isLoading |-> FALSE]
ScreenIdle == stopHook = NoStopHook /\ stopCalls = {} /\ journeyCalls = {} /\ asked = <<>>

\* auto-update.js never ran: no archive, no version file, no database; the
\* remote archive is the first one
NoUpdate ==
    [remote |-> [id |-> 1, size |-> 1], archive |-> [id |-> 0, size |-> 0],
     lastUpdate |-> "null", version |-> 0, full |-> 0, offline |-> 0, report |-> "none"]
UpdaterIdle == update = NoUpdate

\* the operations apart from the planner, the builder and the stop search are idle
OthersIdle == LookupIdle /\ OpenerIdle /\ ScreenIdle /\ UpdaterIdle

\* no stop search was made; the stop names play no part
NoNames == <<>>
NoStopRequest == <<"(none)">>
NoStopResponse == [status |-> "none", data |-> <<>>]

Init ==
    /\ deployment \in {"backend", "mobile"}
    /\ \E feed \in Feeds :
        LET built == BuildOfflineDatabase(feed)
        IN  /\ built.ok
            /\ routes = built.routes
            /\ stops = built.stops
            /\ route_patterns = built.route_patterns
            /\ pattern_stops = built.pattern_stops
            /\ stop_routes = built.stop_routes
    /\ req = NoRequest
    /\ trace = <<>>
    /\ directRows = <<>>
    /\ transferRows = <<>>
    /\ res = NoResponse
    /\ hook = NoHook
    /\ gtfs = NoFeed
    /\ build = BuildDone
    /\ dbfile = "new"
    /\ reader = NoReader
    /\ stop_name = NoNames
    /\ stopReq = NoStopRequest
    /\ stopTrace = <<>>
    /\ stopRes = NoStopResponse
    /\ OthersIdle

Next ==
    \/ \E q \in Requests : RouteHandler(q.from, q.to)
    \/ \E q \in Requests : Search(q.from, q.to)

Spec == Init /\ [][Next]_vars

-----------------------------------------------------------------------------
(* A rebuild: build-offline-db.js run next to the serving process *)

\* number of stop_times rows of the first trip of a feed of the sequence family
MaxRows == 2

\* the texts a direction_id field and a stop_sequence field may hold
DirectionTexts == {"", "0", "1", "2", "x"}
SequenceTexts == {"1", "3", "x"}

FeedFiles == {"routes.txt", "stops.txt", "trips.txt", "stop_times.txt", "transfers.txt"}

\* a row of trips.txt on route R1
TripOnR1(trip_id, direction_id) ==
    [trip_id |-> trip_id, route_id |-> "R1", direction_id |-> direction_id,
     trip_headsign |-> trip_id]

\* a row of stop_times.txt
StopTime(trip_id, stop_id, text) ==
    [trip_id |-> trip_id, stop_id |-> stop_id, stop_sequence |-> text]

\* three trips of route R1 with any direction texts; trip T1 calls at A, T2 at
\* B, T3 at C, or has no stop_times rows
DirectionFeeds ==
    {[missing |-> {},
      routes |-> RouteIds,
      stops |-> StopIds,
      trips |-> <<TripOnR1("T1", d[1]), TripOnR1("T2", d[2]), TripOnR1("T3", d[3])>>,
      stop_times |-> (IF "T1" \in called THEN <<StopTime("T1", "A", "1")>> ELSE <<>>)
                        \o (IF "T2" \in called THEN <<StopTime("T2", "B", "1")>> ELSE <<>>)
                        \o (IF "T3" \in called THEN <<StopTime("T3", "C", "1")>> ELSE <<>>)] :
        d \in DirectionTexts \X DirectionTexts \X DirectionTexts,
        called \in SUBSET {"T1", "T2", "T3"}}

\* the stop_times rows of trip T1: up to MaxRows rows with any sequence texts
SequenceRows ==
    SeqsUpTo({StopTime("T1", x, text) : x \in {"A", "B"}, text \in SequenceTexts}, MaxRows)

\* trip T1 with any rows, and after it a trip T2 of the same route that calls at
\* B or has no rows
SequenceFeeds ==
    {[missing |-> {},
      routes |-> RouteIds,
      stops |-> StopIds,
      trips |-> <<TripOnR1("T1", "0"), TripOnR1("T2", d2)>>,
      stop_times |-> rows \o second] :
        d2 \in {"0", "1"}, rows \in SequenceRows,
        second \in {<<>>, <<StopTime("T2", "B", "1")>>}}

\* a feed of two trips with some of its files missing from GTFS_DIR
MissingFileFeeds ==
    {[missing |-> m,
      routes |-> RouteIds,
      stops |-> StopIds,
      trips |-> <<TripOnR1("T1", "0"), TripOnR1("T2", "1")>>,
      stop_times |-> StopTimesOf("T1", <<"A", "B">>) \o StopTimesOf("T2", <<"B", "A">>)] :
        m \in {{f} : f \in FeedFiles} \cup {FeedFiles}}

BuildFeeds == DirectionFeeds \cup SequenceFeeds \cup MissingFileFeeds

\* readCSV: the rows of a file, none if the file does not exist
ReadCSV(filename, rows, none) == IF filename \in gtfs.missing THEN none ELSE rows

\* the five tables of a dataset
TablesOf(d) ==
    [routes |-> d.routes, stops |-> d.stops, route_patterns |-> d.route_patterns,
     pattern_stops |-> d.pattern_stops, stop_routes |-> d.stop_routes]

EmptyTables == TablesOf([EmptyBuild EXCEPT !.ok = TRUE] @@ [routes |-> {}, stops |-> {}])

\* the dataset installed by the build before this one
PreviousDataset ==
    TablesOf(BuildOfflineDatabase(
        [routes |-> RouteIds, stops |-> StopIds, trips |-> <<FirstTrip>>,
         stop_times |-> StopTimesOf("T1", <<"A", "B">>)]))

\* the tables of the file at OFFLINE_DB_PATH
CurrentTables == TablesOf([routes |-> routes, stops |-> stops,
                           route_patterns |-> route_patterns,
                           pattern_stops |-> pattern_stops, stop_routes |-> stop_routes])

\* the tables become those of d
Write(d) ==
    /\ routes' = d.routes
    /\ stops' = d.stops
    /\ route_patterns' = d.route_patterns
    /\ pattern_stops' = d.pattern_stops
    /\ stop_routes' = d.stop_routes

\* if (fs.existsSync(OFFLINE_DB_PATH)) fs.unlinkSync(OFFLINE_DB_PATH)
DeleteOld ==
    /\ build.pc = "start"
    /\ build' = [build EXCEPT !.pc = "deleted"]
    /\ dbfile' = "absent"
    /\ Write(EmptyTables)
    /\ UNCHANGED <<deployment, planner, finder, gtfs, reader, others>>

\* new Database(OFFLINE_DB_PATH) and the CREATE TABLE statements
CreateTables ==
    /\ build.pc = "deleted"
    /\ build' = [build EXCEPT !.pc = "created"]
    /\ dbfile' = "new"
    /\ Write(EmptyTables)
    /\ UNCHANGED <<deployment, planner, finder, gtfs, reader, others>>

\* STEP 1: the transaction insertRoutes
ImportRoutes ==
    /\ build.pc = "created"
    /\ build' = [build EXCEPT !.pc = "routes"]
    /\ routes' = {[route_id |-> r] : r \in ReadCSV("routes.txt", gtfs.routes, {})}
    /\ UNCHANGED <<deployment, stops, route_patterns, pattern_stops, stop_routes,
                   planner, finder, gtfs, dbfile, reader, others>>

\* STEP 2: the transaction insertStops
ImportStops ==
    /\ build.pc = "routes"
    /\ build' = [build EXCEPT !.pc = "stops"]
    /\ stops' = {[stop_id |-> x] : x \in ReadCSV("stops.txt", gtfs.stops, {})}
    /\ UNCHANGED <<deployment, routes, route_patterns, pattern_stops, stop_routes,
                   planner, finder, gtfs, dbfile, reader, others>>

\* STEP 3 and STEP 4: readCSV('trips.txt'), then fs.createReadStream of
\* stop_times.txt, which fails if the file does not exist; the catch block
\* ends the script with process.exit(1)
ReadStopTimes ==
    /\ build.pc = "stops"
    /\ build' = IF "stop_times.txt" \in gtfs.missing
                THEN [build EXCEPT !.pc = "failed", !.error = "ENOENT"]
                ELSE [build EXCEPT !.pc = "read"]
    /\ UNCHANGED <<deployment, tables, planner, finder, gtfs, dbfile, reader, others>>

\* STEP 5: the transaction buildPatterns; a constraint error rolls it back and
\* the catch block ends the script with process.exit(1)
BuildPatternsTransaction ==
    /\ build.pc = "read"
    /\ LET p == BuildPatterns(ReadCSV("trips.txt", gtfs.trips, <<>>), gtfs.stop_times)
       IN  IF p.ok
           THEN /\ build' = [build EXCEPT !.pc = "patterns"]
                /\ route_patterns' = p.route_patterns
                /\ pattern_stops' = p.pattern_stops
                /\ stop_routes' = p.stop_routes
           ELSE /\ build' = [build EXCEPT !.pc = "failed", !.error = "SQLITE_CONSTRAINT"]
                /\ UNCHANGED <<route_patterns, pattern_stops, stop_routes>>
    /\ UNCHANGED <<deployment, routes, stops, planner, finder, gtfs, dbfile, reader, others>>

\* STEP 6 to the end: transfers, metro lines, indexes, VACUUM, db.close() and
\* the summary of the counts
Finish ==
    /\ build.pc = "patterns"
    /\ build' = [build EXCEPT !.pc = "done"]
    /\ UNCHANGED <<deployment, tables, planner, finder, gtfs, dbfile, reader, others>>

\* a request of the serving process: getDb() opens OFFLINE_DB_PATH read-only on
\* its first call and keeps the handle, then the handler reads the tables of
\* the file the handle is open on
GetDb ==
    /\ IF reader.handle = "none" /\ dbfile = "absent"
       THEN reader' = [NoReader EXCEPT !.status = "error"]
       ELSE LET opened == OpenHandle(reader)
            IN  reader' = [opened EXCEPT
                            !.status = "ok",
                            !.seen = IF opened.handle = "previous" THEN PreviousDataset
                                     ELSE CurrentTables]
    /\ UNCHANGED <<deployment, tables, planner, finder, gtfs, build, dbfile, others>>

\* the script starts on a feed, over the previous dataset or none
BuildInit ==
    /\ deployment = "backend"
    /\ gtfs \in BuildFeeds
    /\ dbfile \in {"absent", "previous"}
    /\ build = [pc |-> "start", error |-> "none", over |-> dbfile]
    /\ IF dbfile = "previous"
       THEN /\ routes = PreviousDataset.routes
            /\ stops = PreviousDataset.stops
            /\ route_patterns = PreviousDataset.route_patterns
            /\ pattern_stops = PreviousDataset.pattern_stops
            /\ stop_routes = PreviousDataset.stop_routes
       ELSE /\ routes = {}
            /\ stops = {}
            /\ route_patterns = {}
            /\ pattern_stops = {}
            /\ stop_routes = {}
    /\ reader = NoReader
    /\ req = NoRequest
    /\ trace = <<>>
    /\ directRows = <<>>
    /\ transferRows = <<>>
    /\ res = NoResponse
    /\ hook = NoHook
    /\ stop_name = NoNames
    /\ stopReq = NoStopRequest
    /\ stopTrace = <<>>
    /\ stopRes = NoStopResponse
    /\ OthersIdle

BuildNext ==
    \/ DeleteOld
    \/ CreateTables
    \/ ImportRoutes
    \/ ImportStops
    \/ ReadStopTimes
    \/ BuildPatternsTransaction
    \/ Finish
    \/ GetDb

BuildSpec == BuildInit /\ [][BuildNext]_vars

-----------------------------------------------------------------------------
(* What the claims speak of *)

Backend == deployment = "backend"

\* a request has been served
Served == IF Backend THEN res # NoResponse ELSE hook # NoHook

\* the last request ran its direct search / its transfer search
DirectSearchRan ==
    IF Backend THEN \E i \in DOMAIN trace : trace[i] = "directRoutes"
    ELSE \E i \in DOMAIN trace : trace[i] = "findDirectRoutes"
TransferSearchRan ==
    IF Backend THEN \E i \in DOMAIN trace : trace[i] = "transferRoutes"
    ELSE \E i \in DOMAIN trace : trace[i] = "findTransferRoutes"

Resolves(id) == \E s \in stops : s.stop_id = id
PatternRow(pattern_id) == CHOOSE rp \in route_patterns : rp.pattern_id = pattern_id
HasRouteRow(pattern_id) == \E r \in routes : r.route_id = PatternRow(pattern_id).route_id

\* <<P, s, t>>: pattern P has stop a at sequence s and stop b at a later sequence t
Occurrences(a, b) ==
    {<<ps1.pattern_id, ps1.stop_sequence, ps2.stop_sequence>> :
        <<ps1, ps2>> \in {pp \in pattern_stops \X pattern_stops :
                            /\ pp[1].pattern_id = pp[2].pattern_id
                            /\ pp[1].stop_id = a /\ pp[2].stop_id = b
                            /\ pp[1].stop_sequence < pp[2].stop_sequence}}

\* those of a pattern whose route has a row in routes
Qualifying(a, b) == {o \in Occurrences(a, b) : HasRouteRow(o[1])}

Distance(o) == o[3] - o[2]

\* the cap of the direct search the claims name: 5 on the backend, 10 on mobile
DirectCap == IF Backend THEN 5 ELSE 10

\* <<P, s, t>> of the rows the direct statement returned, in order
ReturnedRows ==
    [i \in DOMAIN directRows |->
        IF Backend
        THEN <<directRows[i].pattern_id, directRows[i].from_sequence,
               directRows[i].to_sequence>>
        ELSE <<directRows[i].pattern_id, directRows[i].from_seq, directRows[i].to_seq>>]

\* the response lists a direct entry for occurrence o: the route and direction
\* of its pattern, at the distance of o
ReturnsEntryFor(o) ==
    LET P == PatternRow(o[1])
    IN  IF Backend
        THEN /\ res.route_type = "direct"
             /\ \E i \in DOMAIN res.data :
                    /\ res.data[i].route_id = P.route_id
                    /\ res.data[i].direction_id = P.direction_id
                    /\ res.data[i].stops_count - 1 = Distance(o)
        ELSE \E i \in DOMAIN hook.routes :
                    /\ hook.routes[i].type = "direct"
                    /\ hook.routes[i].route_id = P.route_id
                    /\ hook.routes[i].direction = DirectionLabel(P)
                    /\ hook.routes[i].stops_between = Distance(o)

\* a request for a journey between two given stops has been served
JourneyServed == Served /\ req.from # "" /\ req.to # ""

-----------------------------------------------------------------------------
(* C1 *)

\* C1 as stated: for every pattern and stops A before B on it, the direct
\* search from A to B returns an entry for the pattern's route and direction
\* at distance seq(B) - seq(A).
C1_AsStated ==
    JourneyServed => \A o \in Occurrences(req.from, req.to) : ReturnsEntryFor(o)

\* C1, amended: for every pattern whose route has a row in routes and stops A
\* before B on it (on the backend both with a row in stops), the direct search
\* from A to B returns an entry for the pattern's route and direction at
\* distance seq(B) - seq(A), provided no more than the cap (5 backend, 10
\* mobile) of the qualifying entries are at that distance or nearer.
C1_DirectRouteWithinCap ==
    JourneyServed =>
        \A o \in Qualifying(req.from, req.to) :
            (/\ Backend => Resolves(req.from) /\ Resolves(req.to)
             /\ Cardinality({q \in Qualifying(req.from, req.to) :
                                Distance(q) <= Distance(o)}) <= DirectCap)
            => ReturnsEntryFor(o)

\* a search that returned the entry of a near occurrence and cut a farther one
C1_Witness ==
    /\ JourneyServed
    /\ Cardinality(Qualifying(req.from, req.to)) > DirectCap
    /\ \E o \in Qualifying(req.from, req.to) :
        /\ Cardinality({q \in Qualifying(req.from, req.to) :
                            Distance(q) <= Distance(o)}) <= DirectCap
        /\ ReturnsEntryFor(o)

-----------------------------------------------------------------------------
(* C2 *)

\* C2: the direct search returns qualifying entries only, each once, in
\* non-decreasing order of to_seq - from_seq, min(cap, number qualifying) of
\* them, and no omitted qualifying entry is nearer than a returned one; the
\* response lists them in that order.
C2_SortedAndTruncated ==
    DirectSearchRan =>
        LET Q == Qualifying(req.from, req.to)
            n == Len(ReturnedRows)
            returned == {ReturnedRows[i] : i \in 1..n}
        IN  /\ n = (IF Cardinality(Q) <= DirectCap THEN Cardinality(Q) ELSE DirectCap)
            /\ returned \subseteq Q
            /\ Cardinality(returned) = n
            /\ \A i, j \in 1..n :
                i <= j => Distance(ReturnedRows[i]) <= Distance(ReturnedRows[j])
            /\ \A o \in Q \ returned : \A i \in 1..n :
                Distance(ReturnedRows[i]) <= Distance(o)
            /\ n > 0 =>
                IF Backend
                THEN /\ Len(res.data) = n
                     /\ \A i \in 1..n :
                        res.data[i].stops_count - 1 = Distance(ReturnedRows[i])
                ELSE /\ Len(hook.routes) = n
                     /\ \A i \in 1..n :
                        hook.routes[i].stops_between = Distance(ReturnedRows[i])

\* a direct search that had to cut qualifying entries of different distances
C2_Witness ==
    /\ DirectSearchRan
    /\ Cardinality(Qualifying(req.from, req.to)) > DirectCap
    /\ Len(directRows) = DirectCap
    /\ Distance(ReturnedRows[1]) < Distance(ReturnedRows[DirectCap])

-----------------------------------------------------------------------------
(* C3 *)

\* the place of a statement in the trace of the last request (0: not executed)
PlaceOf(statement) ==
    IF \E i \in DOMAIN trace : trace[i] = statement
    THEN Min({i \in DOMAIN trace : trace[i] = statement})
    ELSE 0

\* <<leg-1 route, transfer stop, leg-2 route>> of the transfer results returned
TransferTriples ==
    [i \in DOMAIN transferRows |->
        IF Backend
        THEN <<res.data[i].leg1.route_id, res.data[i].transfer_at.stop_id,
               res.data[i].leg2.route_id>>
        ELSE <<transferRows[i].r1_id, transferRows[i].transfer_stop_id,
               transferRows[i].r2_id>>]

\* the results the last request answered with, by type
ResultTypes ==
    IF Backend THEN {res.data[i].type : i \in DOMAIN res.data}
    ELSE {hook.routes[i].type : i \in DOMAIN hook.routes}

\* C3: the transfer search runs only after the direct search of the same
\* request returned nothing; when a direct route exists the answer holds
\* direct results only, and transfer results are answered only when no direct
\* route exists.
C3_TransferOnlyAfterEmptyDirect ==
    /\ TransferSearchRan =>
        /\ DirectSearchRan
        /\ directRows = <<>>
        /\ IF Backend THEN PlaceOf("directRoutes") < PlaceOf("transferRoutes")
           ELSE PlaceOf("findDirectRoutes") < PlaceOf("findTransferRoutes")
    /\ (DirectSearchRan /\ Qualifying(req.from, req.to) # {}) =>
        /\ ~TransferSearchRan
        /\ transferRows = <<>>
        /\ ResultTypes = {"direct"}
        /\ Backend => res.route_type = "direct"
    /\ (DirectSearchRan /\ "transfer" \in ResultTypes) =>
        /\ Qualifying(req.from, req.to) = {}
        /\ ResultTypes = {"transfer"}

\* a request whose direct search found nothing and whose transfer search did
C3_Witness ==
    /\ DirectSearchRan /\ directRows = <<>>
    /\ TransferSearchRan /\ ResultTypes = {"transfer"}

-----------------------------------------------------------------------------
(* C4 *)

\* stop x lies after stop a on a pattern of route r
AfterOnRoute(a, x, r) ==
    \E o \in Occurrences(a, x) : PatternRow(o[1]).route_id = r

\* C4: every transfer result (R1, X, R2) is valid: X lies after `from` on a
\* pattern of R1 and before `to` on a pattern of R2.
C4_TransfersValid ==
    TransferSearchRan =>
        /\ \A i \in DOMAIN TransferTriples :
            /\ AfterOnRoute(req.from, TransferTriples[i][2], TransferTriples[i][1])
            /\ AfterOnRoute(TransferTriples[i][2], req.to, TransferTriples[i][3])
        /\ ~Backend =>
            /\ Len(hook.routes) = Len(transferRows)
            /\ \A i \in DOMAIN transferRows :
                /\ hook.routes[i].route_id = TransferTriples[i][1]
                /\ hook.routes[i].transfer_at = StopName(TransferTriples[i][2])
                /\ hook.routes[i].leg2_name = RouteShortName(TransferTriples[i][3])

\* the backend answered a transfer at a stop that is neither `from` nor `to`
C4_Witness ==
    /\ Backend /\ TransferSearchRan
    /\ res.route_type = "transfer"
    /\ \E i \in DOMAIN TransferTriples :
        TransferTriples[i][2] \notin {req.from, req.to}

-----------------------------------------------------------------------------
(* C5 *)

\* a stop X, a pattern with `from` before X and a pattern of another route
\* with X before `to`
TransferExists(from, to) ==
    \E x \in {ps.stop_id : ps \in pattern_stops} :
        \E o1 \in Occurrences(from, x), o2 \in Occurrences(x, to) :
            PatternRow(o1[1]).route_id # PatternRow(o2[1]).route_id

\* the answer "no route": route_type 'none' with no data (backend), no routes
\* and the error "No routes found between these stops" (mobile)
NoRouteOutcome ==
    IF Backend THEN res.route_type = "none" /\ res.data = <<>>
    ELSE hook.routes = <<>> /\ hook.error = "No routes found between these stops"

\* C5 as stated: with both stops resolved and no direct route, the answer is
\* "no route" exactly when no transfer exists, and holds a transfer otherwise.
C5_AsStated ==
    (/\ JourneyServed
     /\ Resolves(req.from) /\ Resolves(req.to)
     /\ Occurrences(req.from, req.to) = {}) =>
        /\ NoRouteOutcome <=> ~TransferExists(req.from, req.to)
        /\ TransferExists(req.from, req.to) =>
            "transfer" \in ResultTypes /\ Len(transferRows) >= 1

-----------------------------------------------------------------------------
(* C6 *)

\* C6: the two legs of every transfer result are of different routes.
C6_LegsOfDifferentRoutes ==
    TransferSearchRan =>
        \A i \in DOMAIN TransferTriples : TransferTriples[i][1] # TransferTriples[i][3]

\* a transfer answered although the route of the first leg also leaves the
\* transfer stop towards `to`, on the pattern of its other direction
C6_Witness ==
    /\ TransferSearchRan
    /\ \E i \in DOMAIN TransferTriples :
        AfterOnRoute(TransferTriples[i][2], req.to, TransferTriples[i][1])

-----------------------------------------------------------------------------
(* C7 *)

\* the pattern ids of the rows the direct search returned
ReturnedPatterns == {directRows[i].pattern_id : i \in DOMAIN directRows}

\* the next request is the last one reversed
ReversedNext == req' = [from |-> req.to, to |-> req.from]

\* pattern P calls at the stop exactly once
CallsOnce(pattern_id, stop_id) ==
    Cardinality({ps \in pattern_stops :
                    ps.pattern_id = pattern_id /\ ps.stop_id = stop_id}) = 1

-----------------------------------------------------------------------------
(* C8 *)

\* C8 as stated: the direct result holds at most one entry per (route,
\* direction).
C8_AsStated ==
    DirectSearchRan =>
        \A i, j \in DOMAIN directRows :
            (/\ directRows[i].route_id = directRows[j].route_id
             /\ directRows[i].direction_id = directRows[j].direction_id) => i = j

-----------------------------------------------------------------------------
(* C9 *)

\* the answer NotFound: HTTP 404 (backend); on mobile an error other than the
\* "no route" one
NotFoundOutcome ==
    IF Backend THEN res.status = 404
    ELSE hook.error \notin {"null", "No routes found between these stops"}

\* C9 as stated: a request with an id that has no row in stops is answered
\* NotFound.
C9_AsStated ==
    (JourneyServed /\ (~Resolves(req.from) \/ ~Resolves(req.to))) => NotFoundOutcome

-----------------------------------------------------------------------------
(* C10 *)

\* C10: a request with the from or the to id missing is answered InvalidInput
\* (HTTP 400; on mobile "Please select both stops") with no statement
\* executed, whether or not the other id resolves.
C10_InvalidInputFirst ==
    (Served /\ (req.from = "" \/ req.to = "")) =>
        /\ trace = <<>>
        /\ IF Backend THEN res.status = 400 /\ res.data = <<>>
           ELSE hook.error = "Please select both stops"

\* a request with the from id missing and a to id without a row in stops
C10_Witness ==
    /\ Backend /\ Served
    /\ req.from = "" /\ req.to # "" /\ ~Resolves(req.to)
    /\ res.status = 400

-----------------------------------------------------------------------------
(* What the claims on the builder speak of *)

\* the script ran to its end: the dataset is built
BuildSucceeded == build.pc = "done"

\* the rows of pattern_stops of a pattern
StopsOfPattern(pattern_id) == {ps \in pattern_stops : ps.pattern_id = pattern_id}

\* the trips the script read
TripsRead == IF "trips.txt" \in gtfs.missing THEN <<>> ELSE gtfs.trips

-----------------------------------------------------------------------------
(* C11 *)

\* C11: after a successful build the pattern_stops rows of every pattern have
\* pairwise distinct stop_sequence values, and there are total_stops of them.
C11_DistinctSequences ==
    BuildSucceeded =>
        \A rp \in route_patterns :
            /\ \A a, b \in StopsOfPattern(rp.pattern_id) :
                a # b => a.stop_sequence # b.stop_sequence
            /\ Cardinality(StopsOfPattern(rp.pattern_id)) = rp.total_stops

\* a built pattern of two rows whose sequences the feed gave out of order
C11_Witness ==
    /\ BuildSucceeded
    /\ \E rp \in route_patterns : rp.total_stops = 2
    /\ \E i, j \in DOMAIN gtfs.stop_times :
        /\ i < j
        /\ gtfs.stop_times[i].trip_id = gtfs.stop_times[j].trip_id
        /\ ParseSequence(gtfs.stop_times[i].stop_sequence)
            > ParseSequence(gtfs.stop_times[j].stop_sequence)

-----------------------------------------------------------------------------
(* C12 *)

\* C12 as stated: after a successful build every route has at most two
\* route_patterns rows, and no two rows share (route_id, direction_id).
C12_AsStated ==
    BuildSucceeded =>
        /\ \A r \in {rp.route_id : rp \in route_patterns} :
            Cardinality({rp \in route_patterns : rp.route_id = r}) <= 2
        /\ \A a, b \in route_patterns :
            (a.route_id = b.route_id /\ a.direction_id = b.direction_id) => a = b

-----------------------------------------------------------------------------
(* C13 *)

\* C13: after a successful build stop_routes holds (stop_id, route_id,
\* direction_id) exactly when the pattern of (route_id, direction_id) has a
\* pattern_stops row of stop_id; its rows are a set (the key is the whole row).
C13_StopRoutesOfPatterns ==
    BuildSucceeded =>
        stop_routes =
            {[stop_id |-> ps.stop_id, route_id |-> rp.route_id,
              direction_id |-> rp.direction_id] :
                <<rp, ps>> \in {x \in route_patterns \X pattern_stops :
                                    x[1].pattern_id = x[2].pattern_id}}

\* a built pattern that calls twice at a stop: two rows of pattern_stops, one
\* of stop_routes
C13_Witness ==
    /\ BuildSucceeded
    /\ \E a, b \in pattern_stops :
        a # b /\ a.pattern_id = b.pattern_id /\ a.stop_id = b.stop_id
    /\ Cardinality(stop_routes) < Cardinality(pattern_stops)

-----------------------------------------------------------------------------
(* C14 *)

\* the direction of a trip: its direction_id text, a blank read as 0
DirectionOf(trip) == IF trip.direction_id = "" THEN "0" ELSE trip.direction_id

\* the place in trips.txt of the first trip of the group of the trip at place i
FirstOfGroup(i) ==
    Min({j \in DOMAIN TripsRead :
            /\ TripsRead[j].route_id = TripsRead[i].route_id
            /\ DirectionOf(TripsRead[j]) = DirectionOf(TripsRead[i])})

\* the stop_times rows of a trip
RowsOfTrip(trip_id) ==
    {i \in DOMAIN gtfs.stop_times : gtfs.stop_times[i].trip_id = trip_id}

\* the pattern emitted for the group whose first trip is at place i
PatternOfGroup(i) ==
    {rp \in route_patterns :
        /\ rp.route_id = TripsRead[i].route_id
        /\ rp.direction_id = ParseInt(TripsRead[i].direction_id)
        /\ rp.headsign = TripsRead[i].trip_headsign}

\* C14: for every (route_id, direction) group of trips whose first trip in
\* trips.txt order has stop_times rows, the pattern emitted holds exactly the
\* rows of that trip, with their sequence numbers, in ascending order of
\* sequence: first_stop_id and last_stop_id are the stops of the least and the
\* greatest sequence, total_stops the number of rows; a group whose first trip
\* has no rows gets no pattern, and every pattern is the one of a group.
C14_FirstTripIsRepresentative ==
    BuildSucceeded =>
        /\ \A i \in DOMAIN TripsRead :
            FirstOfGroup(i) = i =>
                LET rows == RowsOfTrip(TripsRead[i].trip_id)
                IN  IF rows = {} THEN PatternOfGroup(i) = {}
                    ELSE \E rp \in PatternOfGroup(i) :
                        /\ {[stop_id |-> ps.stop_id, stop_sequence |-> ps.stop_sequence] :
                                ps \in StopsOfPattern(rp.pattern_id)}
                            = {[stop_id |-> gtfs.stop_times[k].stop_id,
                                stop_sequence |->
                                    ParseSequence(gtfs.stop_times[k].stop_sequence)] :
                                    k \in rows}
                        /\ rp.total_stops = Cardinality(rows)
                        /\ \A ps \in StopsOfPattern(rp.pattern_id) :
                            /\ (\A q \in StopsOfPattern(rp.pattern_id) :
                                    ps.stop_sequence <= q.stop_sequence)
                                => rp.first_stop_id = ps.stop_id
                            /\ (\A q \in StopsOfPattern(rp.pattern_id) :
                                    ps.stop_sequence >= q.stop_sequence)
                                => rp.last_stop_id = ps.stop_id
        /\ \A rp \in route_patterns :
            \E i \in DOMAIN TripsRead : FirstOfGroup(i) = i /\ rp \in PatternOfGroup(i)

\* a built pattern of a group of two trips that call at different stops
C14_Witness ==
    /\ BuildSucceeded
    /\ \E i, j \in DOMAIN TripsRead :
        /\ i < j
        /\ FirstOfGroup(j) = i
        /\ RowsOfTrip(TripsRead[i].trip_id) # {}
        /\ RowsOfTrip(TripsRead[j].trip_id) # {}
        /\ PatternOfGroup(i) # {}

-----------------------------------------------------------------------------
(* C15 *)

\* the dataset a build of the feed in GTFS_DIR gives
NewDataset ==
    TablesOf(BuildOfflineDatabase(
        [routes |-> ReadCSV("routes.txt", gtfs.routes, {}),
         stops |-> ReadCSV("stops.txt", gtfs.stops, {}),
         trips |-> TripsRead,
         stop_times |-> gtfs.stop_times]))

\* C15 as stated: while a rebuild over a previous dataset runs, a reader
\* through getDb never finds the dataset missing, and what it reads is the
\* complete previous dataset or the complete new one.
C15_AsStated ==
    build.over = "previous" =>
        /\ reader.status # "error"
        /\ reader.status = "ok" => reader.seen \in {PreviousDataset, NewDataset}

-----------------------------------------------------------------------------
(* C16 *)

\* C16 as stated: when a build over a previous dataset has failed, the file
\* at OFFLINE_DB_PATH is still the complete previous dataset.
C16_AsStated ==
    (build.pc = "failed" /\ build.over = "previous") =>
        /\ dbfile # "absent"
        /\ CurrentTables = PreviousDataset

-----------------------------------------------------------------------------
(* C17 *)

\* C17 as stated: with any input file missing from GTFS_DIR the build does
\* not end with an error.
C17_AsStated == gtfs.missing # {} => build.pc # "failed"

-----------------------------------------------------------------------------
(* C18 *)

\* a numeric field that holds a decimal number
WellFormed(text) == \E n \in DOMAIN Decimals : Decimals[n] = text

\* C18 as stated: a malformed numeric field never aborts the build (a build
\* that aborts on a constraint has two rows of one trip with the same
\* well-formed stop_sequence), and in a built dataset every row of a
\* representative trip with a malformed stop_sequence is kept with sequence 0.
C18_AsStated ==
    /\ build.error = "SQLITE_CONSTRAINT" =>
        \E i, j \in DOMAIN gtfs.stop_times :
            /\ i # j
            /\ gtfs.stop_times[i].trip_id = gtfs.stop_times[j].trip_id
            /\ WellFormed(gtfs.stop_times[i].stop_sequence)
            /\ gtfs.stop_times[i].stop_sequence = gtfs.stop_times[j].stop_sequence
    /\ BuildSucceeded =>
        \A i \in DOMAIN TripsRead :
            FirstOfGroup(i) = i =>
                \A k \in RowsOfTrip(TripsRead[i].trip_id) :
                    ~WellFormed(gtfs.stop_times[k].stop_sequence) =>
                        \E rp \in PatternOfGroup(i) :
                            \E ps \in StopsOfPattern(rp.pattern_id) :
                                /\ ps.stop_id = gtfs.stop_times[k].stop_id
                                /\ ps.stop_sequence = 0

-----------------------------------------------------------------------------
(* Stop search: GET /api/search/stops (search.routes.js) and searchStops (db.ts) *)

\* length of the longest query explored
MaxQuery == 3

\* the characters of a query and the stop names of a dataset
QueryChars == {"a", "b", "A", " ", "_"}
NamePool == {<<"a", " ", "b">>, <<"b", " ", "a">>, <<"A", "b">>}

Queries == SeqsUpTo(QueryChars, MaxQuery)

\* String.prototype.toLowerCase and SQL LOWER on the characters explored
LowerChar(c) == CASE c = "A" -> "a" [] c = "B" -> "b" [] OTHER -> c
ToLowerCase(text) == [i \in DOMAIN text |-> LowerChar(text[i])]

\* String.prototype.trim
Trim(text) ==
    LET inked == {i \in DOMAIN text : text[i] # " "}
    IN  IF inked = {} THEN <<>>
        ELSE SubSeq(text, Min(inked), CHOOSE i \in inked : \A j \in inked : j <= i)

\* split(/\s+/) of a trimmed text; the empty text gives one empty word
RECURSIVE Split(_)
Split(text) ==
    LET blanks == {i \in DOMAIN text : text[i] = " "}
    IN  IF blanks = {} THEN <<text>>
        ELSE LET i == Min(blanks)
             IN  <<SubSeq(text, 1, i - 1)>> \o Split(Trim(SubSeq(text, i, Len(text))))

\* q.trim().toLowerCase().split(/\s+/)
Words(q) == Split(ToLowerCase(Trim(q)))

\* words.join('%')
RECURSIVE Join(_)
Join(words) ==
    IF Len(words) = 1 THEN words[1] ELSE words[1] \o <<"%">> \o Join(Tail(words))

\* '%' + words.join('%') + '%'
FuzzyPattern(words) == <<"%">> \o Join(words) \o <<"%">>

\* `%${words[0]}%`
FirstWordPattern(words) == <<"%">> \o words[1] \o <<"%">>

\* the SQL operator LIKE: % is any run of characters, _ any one character,
\* letters compare without case
RECURSIVE Like(_, _)
Like(text, pattern) ==
    IF pattern = <<>> THEN text = <<>>
    ELSE IF Head(pattern) = "%"
    THEN Like(text, Tail(pattern)) \/ (text # <<>> /\ Like(Tail(text), pattern))
    ELSE /\ text # <<>>
         /\ Head(pattern) = "_" \/ LowerChar(Head(pattern)) = LowerChar(Head(text))
         /\ Like(Tail(text), Tail(pattern))

\* the stops WHERE LOWER(stop_name) LIKE pattern
StopsLike(pattern) ==
    {x \in {r.stop_id : r \in stops} : Like(ToLowerCase(stop_name[x]), pattern)}

\* the CASE of the ORDER BY of the handler
Tier(x, words) ==
    IF Like(ToLowerCase(stop_name[x]), FirstWordPattern(words)) THEN 1
    ELSE IF Like(ToLowerCase(stop_name[x]), FuzzyPattern(words)) THEN 2
    ELSE 3

\* the length of the longest stop name
LongestName ==
    LET lengths == {Len(stop_name[x]) : x \in DOMAIN stop_name} \cup {0}
    IN  CHOOSE n \in lengths : \A m \in lengths : m <= n

STOP_LIMIT == 20
FALLBACK_LIMIT == 20
MOBILE_STOP_LIMIT == 20

\* the first statement of the handler: ORDER BY CASE ..., LENGTH(stop_name) LIMIT 20
FuzzyRows(words) ==
    OrderedTake({<<Tier(x, words) * (LongestName + 1) + Len(stop_name[x]), x>> :
                    x \in StopsLike(FuzzyPattern(words))}, STOP_LIMIT)

\* the second statement of the handler: the first word, ORDER BY LENGTH(stop_name)
FirstWordRows(words) ==
    OrderedTake({<<Len(stop_name[x]), x>> : x \in StopsLike(FirstWordPattern(words))},
                FALLBACK_LIMIT)

\* a handler that rejects no query
TooShort_Never(q) == FALSE

\* !q || q.length < 2
TooShort(q) == Len(q) < 2

\* router.get('/stops'): the whole handler for one request; one search is
\* explored on each dataset
StopsHandler(q) ==
    /\ deployment = "backend"
    /\ stopReq = NoStopRequest
    /\ stopReq' = q
    /\ IF TooShort(q)
       THEN /\ stopTrace' = <<>>
            /\ stopRes' = [status |-> "400", data |-> <<>>]
       ELSE \E first \in FuzzyRows(Words(q)) :
                IF first = <<>> /\ Len(Words(q)) > 1
                THEN /\ stopTrace' = <<"fuzzy", "first word">>
                     /\ \E second \in FirstWordRows(Words(q)) :
                            stopRes' = [status |-> "200", data |-> second]
                ELSE /\ stopTrace' = <<"fuzzy">>
                     /\ stopRes' = [status |-> "200", data |-> first]
    /\ reader' = IF TooShort(q) THEN reader ELSE TakeHandle(reader)
    /\ UNCHANGED <<deployment, tables, planner, gtfs, build, dbfile, stop_name, others>>

\* the statement of searchStops: ORDER BY LENGTH(stop_name) LIMIT 20
SearchStopsRows(words) ==
    OrderedTake({<<Len(stop_name[x]), x>> : x \in StopsLike(FuzzyPattern(words))},
                MOBILE_STOP_LIMIT)

\* searchStops of db.ts: the whole function for one call, its promise resolved
SearchStops(query) ==
    /\ deployment = "mobile"
    /\ stopReq = NoStopRequest
    /\ stopReq' = query
    /\ stopTrace' = <<"fuzzy">>
    /\ \E result \in SearchStopsRows(Words(query)) :
            stopRes' = [status |-> "resolved", data |-> result]
    /\ UNCHANGED <<deployment, tables, planner, builder, stop_name, others>>

\* a dataset of three named stops, served by the backend or held by the app
StopSearchInit ==
    /\ deployment \in {"backend", "mobile"}
    /\ stop_name \in [StopIds -> NamePool]
    /\ stops = {[stop_id |-> x] : x \in StopIds}
    /\ routes = {}
    /\ route_patterns = {}
    /\ pattern_stops = {}
    /\ stop_routes = {}
    /\ req = NoRequest
    /\ trace = <<>>
    /\ directRows = <<>>
    /\ transferRows = <<>>
    /\ res = NoResponse
    /\ hook = NoHook
    /\ gtfs = NoFeed
    /\ build = BuildDone
    /\ dbfile = "new"
    /\ reader = NoReader
    /\ stopReq = NoStopRequest
    /\ stopTrace = <<>>
    /\ stopRes = NoStopResponse
    /\ OthersIdle

StopSearchNext ==
    \/ \E q \in Queries : StopsHandler(q)
    \/ \E query \in Queries : SearchStops(query)

StopSearchSpec == StopSearchInit /\ [][StopSearchNext]_vars

-----------------------------------------------------------------------------
(* What the claims on the stop search speak of *)

\* a stop search was made and answered
StopSearched == stopRes.status # "none"

\* the search failed with an invalid-input error: status 400, or a rejected promise
InvalidInput == stopRes.status \in {"400", "rejected"}

\* the search returned a list
ReturnedList == stopRes.status \in {"200", "resolved"}

\* the stops returned
ReturnedStops == {stopRes.data[i] : i \in DOMAIN stopRes.data}

\* text holds word somewhere
Contains(text, word) ==
    \E i \in 0..(Len(text) - Len(word)) : SubSeq(text, i + 1, i + Len(word)) = word

\* the words of the last query
Tokens == Words(stopReq)

\* the stops whose lowercased name holds every word of the last query
StopsWithEveryToken ==
    {x \in DOMAIN stop_name :
        \A k \in DOMAIN Tokens : Contains(ToLowerCase(stop_name[x]), Tokens[k])}

-----------------------------------------------------------------------------
(* C19 *)

\* C19 as stated: a stop search with a query shorter than 2 characters fails
\* with InvalidInput, and one with a query of 2 characters or more returns a
\* list, on the backend and in the app alike.
C19_AsStated ==
    StopSearched =>
        /\ Len(stopReq) < 2 => InvalidInput
        /\ Len(stopReq) >= 2 => ReturnedList

-----------------------------------------------------------------------------
(* C20 *)

\* C20 as stated: a search of two words or more that ran the fuzzy statement
\* alone returns exactly the stops whose lowercased name holds every word,
\* whatever the order of the words in the name.
C20_AsStated ==
    (ReturnedList /\ Len(Tokens) >= 2 /\ stopTrace = <<"fuzzy">>) =>
        ReturnedStops = StopsWithEveryToken

-----------------------------------------------------------------------------
(* C21 *)

\* text begins with word
StartsWith(text, word) ==
    Len(word) <= Len(text) /\ SubSeq(text, 1, Len(word)) = word

\* the match tier of a stop for the last query: its name starts with the first
\* word, else holds the whole phrase, else neither
MatchTier(x) ==
    IF StartsWith(ToLowerCase(stop_name[x]), Tokens[1]) THEN 1
    ELSE IF Contains(ToLowerCase(stop_name[x]), ToLowerCase(Trim(stopReq))) THEN 2
    ELSE 3

\* C21 as stated: the stops returned come in ascending match tier, within a
\* tier in ascending length of the name, and there are at most 20 of them.
C21_AsStated ==
    ReturnedList =>
        /\ Len(stopRes.data) <= 20
        /\ \A i, j \in DOMAIN stopRes.data :
            i < j =>
                \/ MatchTier(stopRes.data[i]) < MatchTier(stopRes.data[j])
                \/ /\ MatchTier(stopRes.data[i]) = MatchTier(stopRes.data[j])
                   /\ Len(stop_name[stopRes.data[i]]) <= Len(stop_name[stopRes.data[j]])

-----------------------------------------------------------------------------
(* C22 *)

\* the all-tokens match of the last query yields no stop
NoFuzzyMatch == StopsLike(FuzzyPattern(Tokens)) = {}

\* the stops whose lowercased name holds the first word of the last query
StopsWithFirstToken ==
    {x \in DOMAIN stop_name : Contains(ToLowerCase(stop_name[x]), Tokens[1])}

\* C22 as stated: when the all-tokens match yields no stop and the query has
\* two words or more, the search returns the stops whose name holds the first
\* word; otherwise the fuzzy statement is the only one run.
C22_AsStated ==
    ReturnedList =>
        IF NoFuzzyMatch /\ Len(Tokens) >= 2
        THEN ReturnedStops = StopsWithFirstToken
        ELSE stopTrace = <<"fuzzy">>

-----------------------------------------------------------------------------
(* Route lookup: GET /api/bus/:busNumber, GET /api/metro/:lineId and
   GET /api/search/route/:routeId/details *)

\* ROUTE_TYPES of offline-database.js
METRO == 1
BUS == 3

\* the texts of the ids, the names and the tokens explored
RouteTexts == {<<"a">>, <<"b">>, <<"a", "b">>}

\* the rows a routes table may hold
RouteRows ==
    [route_id : RouteTexts, route_short_name : RouteTexts,
     route_long_name : {<<>>, <<"a", "b">>}, route_type : {METRO, BUS}]

\* the routes tables explored: two routes; route_id is the primary key
RouteTables ==
    {{r1, r2} : <<r1, r2>> \in {p \in RouteRows \X RouteRows : p[1].route_id # p[2].route_id}}

\* the planner, the builder and the stop search are idle, the dataset is installed
PlannerIdle ==
    /\ req = NoRequest
    /\ trace = <<>>
    /\ directRows = <<>>
    /\ transferRows = <<>>
    /\ res = NoResponse
    /\ hook = NoHook

BuilderIdle == gtfs = NoFeed /\ build = BuildDone /\ dbfile = "new" /\ reader = NoReader

FinderIdle ==
    /\ stop_name = NoNames
    /\ stopReq = NoStopRequest
    /\ stopTrace = <<>>
    /\ stopRes = NoStopResponse

\* `%${token}%`
Anywhere(token) == <<"%">> \o token \o <<"%">>

\* .get(): the first row of a statement without ORDER BY, any of its rows
GetRow(rows) ==
    IF rows = {} THEN {NoLookupResult}
    ELSE {[status |-> "200", route_id |-> r.route_id] : r \in rows}

\* the statement of GET /api/bus/:busNumber
BusRows(busNumber) ==
    {r \in routes :
        /\ r.route_short_name = busNumber \/ r.route_id = busNumber
        /\ r.route_type = BUS}

\* the statement of GET /api/search/route/:routeId/details
DetailsRows(routeId) ==
    {r \in routes : r.route_id = routeId \/ r.route_short_name = routeId}

\* STEP 7 of the builder: a metro line for every metro route, named after its
\* short name, else its long name, else its id (the names explored hold none
\* of red, green, 2020, which the builder rewrites)
MetroLines ==
    {[line_id |-> r.route_id,
      line_name |-> IF r.route_short_name # <<>> THEN r.route_short_name
                    ELSE IF r.route_long_name # <<>> THEN r.route_long_name
                    ELSE r.route_id,
      route_id |-> r.route_id] : r \in {m \in routes : m.route_type = METRO}}

\* the first statement of GET /api/metro/:lineId
MetroLineRows(lineId) ==
    {ml \in MetroLines :
        \/ ml.line_id = lineId
        \/ ml.route_id = lineId
        \/ Like(ToLowerCase(ml.line_name), ToLowerCase(Anywhere(lineId)))}

\* the second statement of GET /api/metro/:lineId
MetroRouteRows(lineId) ==
    {r \in routes :
        /\ r.route_type = METRO
        /\ \/ r.route_id = lineId
           \/ Like(r.route_short_name, Anywhere(lineId))
           \/ Like(ToLowerCase(r.route_long_name), ToLowerCase(Anywhere(lineId)))}

\* a handler answers: it took the shared handle from getDb, then status 404
\* if the statement gave no row
Answer(handler, token, found) ==
    /\ reader' = TakeHandle(reader)
    /\ lookupReq' = [handler |-> handler, token |-> token]
    /\ lookupRes' = IF found = NoLookupResult
                    THEN [status |-> "404", route_id |-> <<>>]
                    ELSE found
    /\ UNCHANGED <<deployment, tables, planner, finder, gtfs, build, dbfile, opener,
                   screen, update>>

\* router.get('/:busNumber') up to the lookup of the route
BusHandler(busNumber) ==
    \E found \in GetRow(BusRows(busNumber)) : Answer("bus", busNumber, found)

\* router.get('/route/:routeId/details') up to the lookup of the route
DetailsHandler(routeId) ==
    \E found \in GetRow(DetailsRows(routeId)) : Answer("details", routeId, found)

\* router.get('/:lineId') of the metro router up to the lookup of the line
MetroHandler(lineId) ==
    \E line \in GetRow(MetroLineRows(lineId)) :
        IF line # NoLookupResult THEN Answer("metro", lineId, line)
        ELSE \E found \in GetRow(MetroRouteRows(lineId)) : Answer("metro", lineId, found)

\* the serving process starts on an installed dataset of two routes
RouteLookupInit ==
    /\ deployment = "backend"
    /\ routes \in RouteTables
    /\ stops = {}
    /\ route_patterns = {}
    /\ pattern_stops = {}
    /\ stop_routes = {}
    /\ PlannerIdle
    /\ BuilderIdle
    /\ FinderIdle
    /\ OthersIdle

RouteLookupNext ==
    \/ \E token \in RouteTexts : BusHandler(token)
    \/ \E token \in RouteTexts : DetailsHandler(token)
    \/ \E token \in RouteTexts : MetroHandler(token)

RouteLookupSpec == RouteLookupInit /\ [][RouteLookupNext]_vars

-----------------------------------------------------------------------------
(* C23 *)

\* a route lookup was answered
LookedUp == lookupRes.status # "none"

\* the routes the handler of the last lookup looks among: those of its mode
RoutesOfMode ==
    {r \in routes :
        CASE lookupReq.handler = "bus" -> r.route_type = BUS
          [] lookupReq.handler = "metro" -> r.route_type = METRO
          [] OTHER -> TRUE}

\* the routes of the mode whose route_id, whose short name, equals the token
MatchById == {r \in RoutesOfMode : r.route_id = lookupReq.token}
MatchByShortName == {r \in RoutesOfMode : r.route_short_name = lookupReq.token}

\* C23 as stated: a lookup returns the route whose route_id equals the token
\* if there is one, else a route whose short name equals the token; a
\* substring match is returned only when there is no exact match.
C23_AsStated ==
    LookedUp =>
        /\ MatchById # {} =>
            lookupRes.status = "200" /\ lookupRes.route_id = lookupReq.token
        /\ (MatchById = {} /\ MatchByShortName # {}) =>
            /\ lookupRes.status = "200"
            /\ lookupRes.route_id \in {r.route_id : r \in MatchByShortName}

-----------------------------------------------------------------------------
(* The outcomes of the two planners on one dataset *)

\* an outcome: an error condition, the list of direct routes (pattern, boarding
\* sequence, alighting sequence), or the set of transfers (leg-1 route,
\* transfer stop, leg-2 route)
OutcomeOf(kind, direct, transfer) == [kind |-> kind, direct |-> direct, transfer |-> transfer]

\* every outcome router.get('/route') can answer a request with
RouteHandlerOutcomes(from, to) ==
    IF MissingInput(from, to) THEN {OutcomeOf("invalid", <<>>, {})}
    ELSE IF StopRow(from) = {} \/ StopRow(to) = {} THEN {OutcomeOf("not found", <<>>, {})}
    ELSE UNION {
        IF DirectFound(direct)
        THEN {OutcomeOf("direct",
                        [i \in DOMAIN direct |->
                            <<direct[i].pattern_id, direct[i].from_sequence,
                              direct[i].to_sequence>>], {})}
        ELSE UNION {
            {OutcomeOf(IF Len(transfer) > 0 THEN "transfer" ELSE "none", <<>>,
                       {<<transfer[i].route1, transfer[i].transfer_stop_id,
                          transfer[i].route2>> : i \in DOMAIN transfer}) :
                transfer \in AnyTake(TransferCandidates(from, to, get), TRANSFER_LIMIT)} :
            get \in SequenceGets} :
        direct \in OrderedTake({<<SequenceDistance(r), r>> : r \in DirectRoutesRows(from, to)},
                               DIRECT_LIMIT)}

\* every outcome useJourneySearch.search can end a search with
SearchOutcomes(fromStop, toStop) ==
    IF fromStop = "" \/ toStop = "" THEN {OutcomeOf("invalid", <<>>, {})}
    ELSE UNION {
        IF Len(direct) > 0
        THEN {OutcomeOf("direct",
                        [i \in DOMAIN direct |->
                            <<direct[i].pattern_id, direct[i].from_seq, direct[i].to_seq>>],
                        {})}
        ELSE {OutcomeOf(IF Len(transfer) > 0 THEN "transfer" ELSE "none", <<>>,
                        {<<transfer[i].r1_id, transfer[i].transfer_stop_id,
                           transfer[i].r2_id>> : i \in DOMAIN transfer}) :
                transfer \in AnyTake(FindTransferRoutesRows(fromStop, toStop),
                                     MOBILE_TRANSFER_LIMIT)} :
        direct \in OrderedTake({<<SeqDistance(r), r>> :
                                    r \in FindDirectRoutesRows(fromStop, toStop)},
                               MOBILE_DIRECT_LIMIT)}

-----------------------------------------------------------------------------
(* C24 *)

\* the outcome of the last request
Outcome ==
    OutcomeOf(
        IF (IF Backend THEN res.status = 400 ELSE hook.error = "Please select both stops")
        THEN "invalid"
        ELSE IF NotFoundOutcome THEN "not found"
        ELSE IF Len(directRows) > 0 THEN "direct"
        ELSE IF Len(transferRows) > 0 THEN "transfer"
        ELSE "none",
        ReturnedRows,
        {TransferTriples[i] : i \in DOMAIN TransferTriples})

\* the outcomes of the planner that served the last request, and of the other one
OwnOutcomes ==
    IF Backend THEN RouteHandlerOutcomes(req.from, req.to)
    ELSE SearchOutcomes(req.from, req.to)
OtherOutcomes ==
    IF Backend THEN SearchOutcomes(req.from, req.to)
    ELSE RouteHandlerOutcomes(req.from, req.to)

\* C24 as stated: the outcome of a request served by one planner is an
\* outcome the other planner gives for the same input on the same dataset.
C24_AsStated == Served => Outcome \in OtherOutcomes

-----------------------------------------------------------------------------
(* C25 *)

\* C25: no request changes the stored tables; the serving process opens at
\* most one handle, on its first query, and every later query uses that handle.
C25_ReadOnlySharedHandle ==
    /\ [](reader.opens <= 1)
    /\ [][/\ UNCHANGED tables
          /\ reader.handle # "none" => reader'.handle = reader.handle]_vars

\* the process answered a request with the handle it opened once
C25_Witness ==
    /\ Backend
    /\ Served
    /\ res.status = 200
    /\ reader.handle = "new"
    /\ reader.opens = 1

-----------------------------------------------------------------------------
(* Mobile: initDatabase of db.ts, called by several hooks at once *)

\* the state of dbFile when the app starts: no file, a dataset with its routes
\* table, or a file with content and no routes table
AppFiles == {"absent", "valid", "invalid"}

\* the call of caller c moves to pc
Proceed(c, pc) == callers' = [callers EXCEPT ![c].pc = pc]

\* the call of caller c returns db
Return(c, handle, ready) ==
    callers' = [callers EXCEPT ![c] = [pc |-> "returned", got |-> handle, early |-> ~ready]]

\* the rest of the state of the app
NotOpener ==
    <<deployment, tables, planner, builder, finder, lookup, screen, update>>

\* initDatabase() up to its first await: return db if it is set, else look at
\* dbFile and start to open it, or go on to copy the bundled file
InitDatabase(c) ==
    /\ callers[c].pc = "idle"
    /\ IF appDb.db # 0 THEN Return(c, appDb.db, appDb.ready)
       ELSE IF appDb.file # "absent" THEN Proceed(c, "opening")
       ELSE Proceed(c, "copying")
    /\ UNCHANGED <<appDb, NotOpener>>

\* db = await SQLite.openDatabaseAsync(DATABASE_NAME) on the existing file
OpenExisting(c) ==
    /\ callers[c].pc = "opening"
    /\ appDb' = [appDb EXCEPT !.db = appDb.opens + 1, !.opens = @ + 1]
    /\ Proceed(c, "verifying")
    /\ UNCHANGED NotOpener

\* the count of the routes table resolves: return db, or go on to copy
Verify(c) ==
    /\ callers[c].pc = "verifying"
    /\ IF appDb.file = "valid"
       THEN /\ appDb' = [appDb EXCEPT !.ready = TRUE]
            /\ Return(c, appDb.db, TRUE)
       ELSE /\ Proceed(c, "copying")
            /\ UNCHANGED appDb
    /\ UNCHANGED NotOpener

\* sqliteDir.create(), asset.downloadAsync() and assetFile.copy(dbFile)
CopyAsset(c) ==
    /\ callers[c].pc = "copying"
    /\ appDb' = [appDb EXCEPT !.file = "valid", !.copies = @ + 1]
    /\ Proceed(c, "reopening")
    /\ UNCHANGED NotOpener

\* db = await SQLite.openDatabaseAsync(DATABASE_NAME) on the copy; return db
OpenCopied(c) ==
    /\ callers[c].pc = "reopening"
    /\ appDb' = [appDb EXCEPT !.db = appDb.opens + 1, !.opens = @ + 1, !.ready = TRUE]
    /\ Return(c, appDb.opens + 1, TRUE)
    /\ UNCHANGED NotOpener

\* the app starts: db is null and no hook has called yet
InitDatabaseInit ==
    /\ deployment = "mobile"
    /\ routes = {}
    /\ stops = {}
    /\ route_patterns = {}
    /\ pattern_stops = {}
    /\ stop_routes = {}
    /\ PlannerIdle
    /\ BuilderIdle
    /\ FinderIdle
    /\ LookupIdle
    /\ ScreenIdle
    /\ UpdaterIdle
    /\ \E file \in AppFiles : appDb = [NoAppDb EXCEPT !.file = file]
    /\ callers = [c \in Callers |-> NoCall]

InitDatabaseNext ==
    \E c \in Callers :
        \/ InitDatabase(c)
        \/ OpenExisting(c)
        \/ Verify(c)
        \/ CopyAsset(c)
        \/ OpenCopied(c)

InitDatabaseSpec == InitDatabaseInit /\ [][InitDatabaseNext]_vars

-----------------------------------------------------------------------------
(* C26 *)

\* C26 as stated: whatever the interleaving of the initDatabase() calls, at
\* most one handle is opened, the bundled file is copied at most once, and no
\* call returns a handle before the existing file was verified or the copy
\* was opened.
C26_AsStated ==
    /\ appDb.opens <= 1
    /\ appDb.copies <= 1
    /\ \A c \in Callers : ~callers[c].early

-----------------------------------------------------------------------------
(* C27 *)

\* C27 as stated: in every direct result of the backend, stops_count is the
\* number of entries of the stops list of the result.
C27_AsStated ==
    (Backend /\ res.route_type = "direct") =>
        \A i \in DOMAIN res.data : res.data[i].stops_count = Len(res.data[i].stops)

-----------------------------------------------------------------------------
(* Mobile: the hooks of JourneyScreen, their calls overlapping *)

\* number of calls made on the hooks of the screen
MaxCalls == 3

\* the texts typed into the picker
TypedTexts == {<<"a">>, <<" ", " ">>, <<"a", "b">>, <<"b", " ">>}

\* the rest of the state of the app
NotScreen ==
    <<deployment, tables, req, trace, directRows, transferRows, res, builder, finder,
      lookup, opener, update>>

\* a call is made on a hook
Ask(call) == Len(asked) < MaxCalls /\ asked' = Append(asked, call)

\* useStopSearch.search up to its first await: a query that is blank or
\* shorter than two characters empties the results, any other starts a call
SearchBegins(query) ==
    IF Trim(query) = <<>> \/ Len(query) < 2
    THEN /\ stopHook' = [stopHook EXCEPT !.results = <<>>]
         /\ UNCHANGED stopCalls
    ELSE /\ stopHook' = [stopHook EXCEPT !.isLoading = TRUE, !.error = "null"]
         /\ stopCalls' = stopCalls \cup {[n |-> Len(asked) + 1, query |-> query]}

\* useStopSearch.clear
Clears == stopHook' = [stopHook EXCEPT !.results = <<>>, !.error = "null"]

\* useJourneySearch.clear
ClearsRoutes == hook' = [hook EXCEPT !.routes = <<>>, !.error = "null"]

\* search(query) of useStopSearch, called by a component
StopSearch(query) ==
    /\ Ask([op |-> "search", query |-> query])
    /\ SearchBegins(query)
    /\ UNCHANGED <<hook, journeyCalls, NotScreen>>

\* clear() of useStopSearch, called by a component
StopClear ==
    /\ Ask([op |-> "clear", query |-> <<>>])
    /\ Clears
    /\ UNCHANGED <<hook, stopCalls, journeyCalls, NotScreen>>

\* JourneyScreen.handleSearch: the text of the picker changed
HandleSearch(text) ==
    IF Len(Trim(text)) >= 2 THEN StopSearch(text) ELSE StopClear

\* JourneyScreen.handleSelectStop: a stop was picked; both hooks are cleared
HandleSelectStop ==
    /\ Ask([op |-> "clear", query |-> <<>>])
    /\ Clears
    /\ ClearsRoutes
    /\ UNCHANGED <<stopCalls, journeyCalls, NotScreen>>

\* the rest of useStopSearch.search: initDatabase() and searchStops resolved,
\* whichever call comes first
StopSearchSettles(call) ==
    /\ call \in stopCalls
    /\ \E data \in SearchStopsRows(Words(call.query)) :
            stopHook' = [stopHook EXCEPT !.results = data, !.isLoading = FALSE]
    /\ stopCalls' = stopCalls \ {call}
    /\ UNCHANGED <<hook, journeyCalls, asked, NotScreen>>

\* the app holds a dataset of three named stops; the picker is open
StopHookInit ==
    /\ deployment = "mobile"
    /\ stop_name \in [StopIds -> NamePool]
    /\ stops = {[stop_id |-> x] : x \in StopIds}
    /\ routes = {}
    /\ route_patterns = {}
    /\ pattern_stops = {}
    /\ stop_routes = {}
    /\ PlannerIdle
    /\ BuilderIdle
    /\ stopReq = NoStopRequest
    /\ stopTrace = <<>>
    /\ stopRes = NoStopResponse
    /\ OthersIdle

StopHookNext ==
    \/ \E query \in TypedTexts : StopSearch(query)
    \/ StopClear
    \/ \E text \in TypedTexts : HandleSearch(text)
    \/ HandleSelectStop
    \/ \E call \in stopCalls : StopSearchSettles(call)

StopHookSpec == StopHookInit /\ [][StopHookNext]_vars

\* C28: when no call of the stop search is in flight, results is what the call
\* made last asked for: the stops of its query after a search, nothing after
\* a query too short or a clear
C28_AsStated ==
    (asked # <<>> /\ stopCalls = {}) =>
        LET last == asked[Len(asked)]
        IN  IF last.op = "search" /\ ~(Trim(last.query) = <<>> \/ Len(last.query) < 2)
            THEN stopHook.results \in SearchStopsRows(Words(last.query))
            ELSE stopHook.results = <<>>

-----------------------------------------------------------------------------
(* Mobile: useJourneySearch, a search in flight while the screen goes on *)

\* what the awaited part of useJourneySearch.search ends with: the routes it
\* sets, and whether it found none
SearchEnds(fromStop, toStop) ==
    UNION {
        IF Len(direct) > 0
        THEN {[routes |-> [i \in DOMAIN direct |-> FoundDirectRoute(direct[i])],
               none |-> FALSE]}
        ELSE {[routes |-> [i \in DOMAIN transfer |-> FoundTransferRoute(transfer[i])],
               none |-> Len(transfer) = 0] :
                transfer \in AnyTake(FindTransferRoutesRows(fromStop, toStop),
                                     MOBILE_TRANSFER_LIMIT)} :
        direct \in OrderedTake({<<SeqDistance(r), r>> :
                                    r \in FindDirectRoutesRows(fromStop, toStop)},
                               MOBILE_DIRECT_LIMIT)}

\* useJourneySearch.search up to its first await; "" stands for a null Stop
JourneySearch(fromStop, toStop) ==
    /\ Ask([op |-> "search", query |-> <<fromStop, toStop>>])
    /\ IF fromStop = "" \/ toStop = ""
       THEN /\ hook' = [hook EXCEPT !.error = "Please select both stops"]
            /\ UNCHANGED journeyCalls
       ELSE /\ hook' = [hook EXCEPT !.isLoading = TRUE, !.error = "null"]
            /\ journeyCalls' = journeyCalls \cup
                    {[n |-> Len(asked) + 1, from |-> fromStop, to |-> toStop]}
    /\ UNCHANGED <<stopHook, stopCalls, NotScreen>>

\* the rest of useJourneySearch.search: initDatabase(), findDirectRoutes and
\* findTransferRoutes resolved
JourneySearchSettles(call) ==
    /\ call \in journeyCalls
    /\ \E end \in SearchEnds(call.from, call.to) :
            hook' = [routes |-> end.routes,
                     error |-> IF end.none THEN "No routes found between these stops"
                               ELSE hook.error,
                     isLoading |-> FALSE]
    /\ journeyCalls' = journeyCalls \ {call}
    /\ UNCHANGED <<stopHook, stopCalls, asked, NotScreen>>

\* JourneyScreen.swapStops and handleModeSelection: clearRoutes() alone
ClearRoutes ==
    /\ Ask([op |-> "clear", query |-> <<>>])
    /\ ClearsRoutes
    /\ UNCHANGED <<stopHook, stopCalls, journeyCalls, NotScreen>>

\* the app holds a dataset of two routes; the screen is open
JourneyHookInit ==
    /\ deployment = "mobile"
    /\ \E feed \in BothDirectionsFeeds :
        LET built == BuildOfflineDatabase(feed)
        IN  /\ built.ok
            /\ routes = built.routes
            /\ stops = built.stops
            /\ route_patterns = built.route_patterns
            /\ pattern_stops = built.pattern_stops
            /\ stop_routes = built.stop_routes
    /\ PlannerIdle
    /\ BuilderIdle
    /\ FinderIdle
    /\ OthersIdle

JourneyHookNext ==
    \/ \E q \in Requests : JourneySearch(q.from, q.to)
    \/ ClearRoutes
    \/ HandleSelectStop
    \/ \E call \in journeyCalls : JourneySearchSettles(call)

JourneyHookSpec == JourneyHookInit /\ [][JourneyHookNext]_vars

\* C29: from a call of clear() until the next call of search, routes is empty
\* and error is null, also while a search started before the clear settles
C29_AsStated ==
    (asked # <<>> /\ asked[Len(asked)].op = "clear") =>
        hook.routes = <<>> /\ hook.error = "null"

-----------------------------------------------------------------------------
(* Backend: the runs of auto-update.js *)

\* number of archives Dubai Pulse publishes
MaxArchives == 3

\* the sizes in bytes an archive may have (its content-length)
Sizes == {1, 2}

\* how a run ends: well, or with an exception in the download, in the
\* extraction, in the import or in the build of the offline database
Outcomes == {"ok", "download", "extract", "import", "build"}

\* the rest of the state
NotUpdater == <<deployment, tables, planner, builder, finder, lookup, opener, screen>>

\* Dubai Pulse replaces the archive behind GTFS_URL
Publish ==
    /\ update.remote.id < MaxArchives
    /\ \E size \in Sizes :
            update' = [update EXCEPT !.remote = [id |-> update.remote.id + 1, size |-> size]]
    /\ UNCHANGED NotUpdater

\* sizeChanged || !currentVersion.lastUpdate; the size of no file is 0
NeedsUpdate == update.remote.size # update.archive.size \/ update.lastUpdate = "null"

\* main() of auto-update.js: one run, with download-and-import.js and
\* build-offline-db.js run by execSync; an exception in either ends the run
\* before saveVersion
AutoUpdate(outcome) ==
    /\ IF ~NeedsUpdate
       THEN /\ outcome = "ok"
            /\ update' = [update EXCEPT !.report = "No update needed"]
       ELSE LET downloaded == [id |-> update.remote.id, size |-> update.remote.size]
            IN  CASE outcome = "download" ->
                        update' = [update EXCEPT !.archive = [id |-> 0, size |-> 0],
                                                 !.report = "download failed"]
                  [] outcome = "extract" ->
                        update' = [update EXCEPT !.archive = downloaded,
                                                 !.report = "update failed"]
                  [] outcome = "import" ->
                        update' = [update EXCEPT !.archive = downloaded,
                                                 !.full = 0,
                                                 !.report = "update failed"]
                  [] outcome = "build" ->
                        \E left \in {0, update.offline} :
                            update' = [update EXCEPT !.archive = downloaded,
                                                     !.full = update.remote.id,
                                                     !.offline = left,
                                                     !.report = "update failed"]
                  [] outcome = "ok" ->
                        update' = [update EXCEPT !.archive = downloaded,
                                                 !.full = update.remote.id,
                                                 !.offline = update.remote.id,
                                                 !.lastUpdate = "set",
                                                 !.version = @ + 1,
                                                 !.report = "UPDATE COMPLETE"]
    /\ UNCHANGED NotUpdater

\* a fresh checkout: no archive, no version file, no database
UpdateInit ==
    /\ deployment = "backend"
    /\ routes = {}
    /\ stops = {}
    /\ route_patterns = {}
    /\ pattern_stops = {}
    /\ stop_routes = {}
    /\ PlannerIdle
    /\ BuilderIdle
    /\ FinderIdle
    /\ LookupIdle
    /\ OpenerIdle
    /\ ScreenIdle
    /\ \E size \in Sizes : update = [NoUpdate EXCEPT !.remote.size = size]

UpdateNext ==
    \/ Publish
    \/ \E outcome \in Outcomes : AutoUpdate(outcome)

UpdateSpec == UpdateInit /\ [][UpdateNext]_vars

\* C30: a run reports 'No update needed' only when the full and the offline
\* database were built from the archive now published, and the run after one
\* that downloaded an archive and failed to import or build it does not
\* report 'No update needed'
C30_AsStated ==
    [][(\E outcome \in Outcomes : AutoUpdate(outcome)) =>
            /\ update'.report = "No update needed" =>
                    /\ update'.full = update'.remote.id
                    /\ update'.offline = update'.remote.id
            /\ update.report = "update failed" => update'.report # "No update needed"]_vars

====
